---- MODULE Spec2Model ----
(***************************************************************************)
(* Combat resolution engine of the Cyberpunk RPG bot: opponent selection,  *)
(* the round loop of CombatSystem.execute_battle, the damage and reward    *)
(* formulas, and the slice of Player progression the engine mutates.       *)
(***************************************************************************)
EXTENDS Integers, Sequences, FiniteSets, TLC

VARIABLES
    player,           \* the Player object handed to the combat system
    npc_database,     \* CombatSystem.npc_database (list of NPC templates)
    combat_history,   \* CombatSystem.combat_history (list of battle records)
    now,              \* the wall clock read by datetime.now()
    pc,               \* position of the caller / of execute_battle
    opponent,         \* index in npc_database returned by find_opponent, 0 for None
    player_stats,     \* execute_battle local: player.get_total_stats()
    player_health,    \* execute_battle local
    opponent_health,  \* execute_battle local
    round_num,        \* execute_battle local
    nrounds,          \* execute_battle local: len(battle_rounds)
    first,            \* _execute_round position: who struck first in the open round
    result,           \* the dict execute_battle returned last
    probe             \* arguments and results of a directly called formula

vars == <<player, npc_database, combat_history, now, pc, opponent, player_stats,
          player_health, opponent_health, round_num, nrounds, first, result, probe>>

\* ------------------------------------------------------------------ bounds
MaxBattles == 2        \* battles started in one behaviour
MaxStat == 5           \* attack / defense range of the directly probed damage formula
MaxProbeLevel == 40    \* opponent and player levels of the directly probed formulas
MaxGain == 340         \* largest amount handed to a directly called add_experience
MaxTime == 2           \* clock ticks that pass between calls of the engine
TicksPerSecond == 2    \* resolution of the clock: ticks in one second
MaxWait == 610         \* seconds waited before the cooldowns are read
MaxInventory == 2      \* items a player of the item specification holds
MaxReloads == 2        \* times a player is saved and loaded again

\* ----------------------------------------------------------- arithmetic
Max(a, b) == IF a >= b THEN a ELSE b
Min(a, b) == IF a <= b THEN a ELSE b
Abs(a) == IF a >= 0 THEN a ELSE -a

\* Python int(x * num / den) for an integer x: truncation toward zero.
Trunc(n, d) == IF n >= 0 THEN n \div d ELSE -((-n) \div d)
\* int(x * 1.5), which is x + int(x / 2) for an integer x
IntTimes15(x) == x + Trunc(x, 2)
\* int(x * 0.3)
IntTimes03(x) == Trunc(x * 3, 10)
\* int(x * 0.2)
IntTimes02(x) == Trunc(x * 2, 10)

\* ------------------------------------------------------------- constants
NoTime == -1                 \* last_combat / last_search = None
combat_cooldown == 300       \* seconds
search_cooldown == 600       \* seconds
RoundCap == 20
NpcCriticalDamage == 15
JitterLow == -2
JitterHigh == 2
Jitter == JitterLow..JitterHigh      \* random.randint(-2, 2)
Rolls == 1..100                      \* random.randint(1, 100)
\* the critical rolls a battle draws: one at or below every chance, one above
BattleRolls == {1, 100}

\* -------------------------------------------------------------- combat.py
NPC(name, level, health, attack, defense, speed) ==
    [name |-> name, level |-> level, health |-> health, max_health |-> health,
     attack |-> attack, defense |-> defense, speed |-> speed,
     critical_damage |-> NpcCriticalDamage]

\* the roster without its first elite opponent, the one of level 15
create_npc_database_elite_from_20 ==
    << NPC("Kiber-gangster", 1, 80, 12, 6, 7),
       NPC("Neiron-haker", 2, 90, 15, 8, 9),
       NPC("Plazmennyi naemnik", 3, 100, 18, 10, 8),
       NPC("Kvantovyi strazh", 4, 120, 22, 15, 10),
       NPC("Hrono-ohotnik", 5, 140, 25, 18, 12),
       NPC("Nanobot-ubiitsa", 6, 160, 28, 20, 14),
       NPC("Gravitatsionnyi voin", 7, 180, 32, 25, 16),
       NPC("Neironnyi titan", 8, 200, 35, 28, 18),
       NPC("Kvantovyi demon", 9, 220, 38, 30, 20),
       NPC("Hrono-vlastelin", 10, 250, 42, 35, 22),
       NPC("Neironnyi bog", 20, 400, 60, 50, 30),
       NPC("Plazmennyi tiran", 25, 500, 70, 60, 35),
       NPC("Kvantovyi imperator", 30, 600, 80, 70, 40),
       NPC("Hrono-sozdatel", 35, 700, 90, 80, 45) >>

create_npc_database ==
    << NPC("Kiber-gangster", 1, 80, 12, 6, 7),
       NPC("Neiron-haker", 2, 90, 15, 8, 9),
       NPC("Plazmennyi naemnik", 3, 100, 18, 10, 8),
       NPC("Kvantovyi strazh", 4, 120, 22, 15, 10),
       NPC("Hrono-ohotnik", 5, 140, 25, 18, 12),
       NPC("Nanobot-ubiitsa", 6, 160, 28, 20, 14),
       NPC("Gravitatsionnyi voin", 7, 180, 32, 25, 16),
       NPC("Neironnyi titan", 8, 200, 35, 28, 18),
       NPC("Kvantovyi demon", 9, 220, 38, 30, 20),
       NPC("Hrono-vlastelin", 10, 250, 42, 35, 22),
       NPC("Kiber-legenda", 15, 300, 50, 40, 25),
       NPC("Neironnyi bog", 20, 400, 60, 50, 30),
       NPC("Plazmennyi tiran", 25, 500, 70, 60, 35),
       NPC("Kvantovyi imperator", 30, 600, 80, 70, 40),
       NPC("Hrono-sozdatel", 35, 700, 90, 80, 45) >>

\* --------------------------------------------------------------- items.py
Item(name, type, attack_bonus, defense_bonus, speed_bonus, critical_bonus) ==
    [name |-> name, type |-> type, attack_bonus |-> attack_bonus,
     defense_bonus |-> defense_bonus, speed_bonus |-> speed_bonus,
     critical_bonus |-> critical_bonus]

HronoBlaster == Item("Hrono-blaster", "weapon", 40, 0, 0, 0)
HronoShield == Item("Hrono-shchit", "armor", 0, 40, 0, 0)
KvantProtsessor == Item("Kvantovyi protsessor", "implant", 0, 0, 8, 12)

\* Item.to_dict: the keys of the saved item
item_to_dict(item) ==
    [name |-> item.name, type |-> item.type, attack_bonus |-> item.attack_bonus,
     defense_bonus |-> item.defense_bonus, speed_bonus |-> item.speed_bonus,
     critical_bonus |-> item.critical_bonus]

\* Item.from_dict
item_from_dict(data) ==
    Item(data.name, data.type, data.attack_bonus, data.defense_bonus,
         data.speed_bonus, data.critical_bonus)

\* -------------------------------------------------------------- player.py
NewPlayer ==
    [user_id |-> 1, level |-> 1, experience |-> 0, experience_to_next_level |-> 100,
     credits |-> 1000, health |-> 100, max_health |-> 100,
     attack |-> 10, defense |-> 5, speed |-> 8, critical_damage |-> 15,
     combat_wins |-> 0, combat_losses |-> 0,
     last_combat |-> NoTime, last_search |-> NoTime,
     inventory |-> <<>>]

\* a level-up that resets the experience instead of consuming the threshold
level_up_reset(p) ==
    [p EXCEPT !.level = @ + 1,
              !.experience = 0,
              !.experience_to_next_level = IntTimes15(@),
              !.max_health = @ + 20,
              !.health = p.max_health + 20,
              !.attack = @ + 3,
              !.defense = @ + 2,
              !.speed = @ + 1,
              !.critical_damage = @ + 1,
              !.credits = @ + 100]

level_up(p) ==
    [p EXCEPT !.level = @ + 1,
              !.experience = @ - p.experience_to_next_level,
              !.experience_to_next_level = IntTimes15(@),
              !.max_health = @ + 20,
              !.health = p.max_health + 20,
              !.attack = @ + 3,
              !.defense = @ + 2,
              !.speed = @ + 1,
              !.critical_damage = @ + 1,
              !.credits = @ + 100]

RECURSIVE level_up_while(_)
\* level-ups repeated until the threshold is no longer met
level_up_while(p) ==
    IF p.experience >= p.experience_to_next_level
    THEN level_up_while(level_up(p)) ELSE p

\* add_experience re-checking the threshold after every level-up
add_experience_loop(p, amount) ==
    level_up_while([p EXCEPT !.experience = @ + amount])

add_experience(p, amount) ==
    LET q == [p EXCEPT !.experience = @ + amount]
    IN  IF q.experience >= q.experience_to_next_level THEN level_up(q) ELSE q

\* the value add_experience returns: True when it called level_up
add_experience_returns(p, amount) ==
    p.experience + amount >= p.experience_to_next_level

add_credits(p, amount) == [p EXCEPT !.credits = @ + amount]

take_damage(p, damage) ==
    LET actual_damage == Max(1, damage - p.defense)
    IN  [p EXCEPT !.health = Max(0, @ - actual_damage)]

apply_item_effects(p, item) ==
    IF item.type = "weapon" THEN [p EXCEPT !.attack = @ + item.attack_bonus]
    ELSE IF item.type = "armor" THEN [p EXCEPT !.defense = @ + item.defense_bonus]
    ELSE IF item.type = "implant"
         THEN [p EXCEPT !.speed = @ + item.speed_bonus,
                        !.critical_damage = @ + item.critical_bonus]
    ELSE p

add_item(p, item) ==
    apply_item_effects([p EXCEPT !.inventory = Append(@, item)], item)

\* the inverse of apply_item_effects
remove_item_effects(p, item) ==
    IF item.type = "weapon" THEN [p EXCEPT !.attack = @ - item.attack_bonus]
    ELSE IF item.type = "armor" THEN [p EXCEPT !.defense = @ - item.defense_bonus]
    ELSE IF item.type = "implant"
         THEN [p EXCEPT !.speed = @ - item.speed_bonus,
                        !.critical_damage = @ - item.critical_bonus]
    ELSE p

\* list.remove: the sequence without its first element equal to x
RemoveFirst(seq, x) ==
    LET k == CHOOSE i \in 1..Len(seq) :
                 seq[i] = x /\ \A j \in 1..(i - 1) : seq[j] # x
    IN  SubSeq(seq, 1, k - 1) \o SubSeq(seq, k + 1, Len(seq))

remove_item(p, item) ==
    IF \E i \in 1..Len(p.inventory) : p.inventory[i] = item
    THEN remove_item_effects(
             [p EXCEPT !.inventory = RemoveFirst(@, item)], item)
    ELSE p

start_combat(p, t) == [p EXCEPT !.last_combat = t]

start_search(p, t) == [p EXCEPT !.last_search = t]

\* Timestamps count clock ticks, TicksPerSecond of them in a second, so that
\* total_seconds() of a difference d is the fraction d / TicksPerSecond.

\* can_combat() with the cooldown compared strictly
can_combat_strict(p, t) ==
    IF p.last_combat = NoTime THEN TRUE
    ELSE t - p.last_combat > combat_cooldown * TicksPerSecond

\* can_combat() called when the clock shows t
can_combat(p, t) ==
    IF p.last_combat = NoTime THEN TRUE
    ELSE t - p.last_combat >= combat_cooldown * TicksPerSecond

\* can_search() called when the clock shows t
can_search(p, t) ==
    IF p.last_search = NoTime THEN TRUE
    ELSE t - p.last_search >= search_cooldown * TicksPerSecond

\* get_combat_cooldown() called when the clock shows t: max(0, int(remaining))
get_combat_cooldown(p, t) ==
    IF p.last_combat = NoTime THEN 0
    ELSE Max(0, Trunc(combat_cooldown * TicksPerSecond - (t - p.last_combat),
                      TicksPerSecond))

\* get_search_cooldown() called when the clock shows t
get_search_cooldown(p, t) ==
    IF p.last_search = NoTime THEN 0
    ELSE Max(0, Trunc(search_cooldown * TicksPerSecond - (t - p.last_search),
                      TicksPerSecond))

RECURSIVE SumBonus(_, _, _)
\* the loop of get_total_stats: the bonus `field` of the items of type `type`
SumBonus(inv, type, field) ==
    IF inv = <<>> THEN 0
    ELSE (IF Head(inv).type = type THEN Head(inv)[field] ELSE 0)
         + SumBonus(Tail(inv), type, field)

get_total_stats(p) ==
    [attack |-> p.attack + SumBonus(p.inventory, "weapon", "attack_bonus"),
     defense |-> p.defense + SumBonus(p.inventory, "armor", "defense_bonus"),
     speed |-> p.speed + SumBonus(p.inventory, "implant", "speed_bonus"),
     critical_damage |-> p.critical_damage
                         + SumBonus(p.inventory, "implant", "critical_bonus")]

\* a timestamp as isoformat() writes it; None stays None
isoformat(t) == [iso |-> t]
fromisoformat(text) == text.iso
None == [none |-> TRUE]

\* Player.to_dict, without the fields no battle reads (username, items_found,
\* playtime_start)
to_dict(p) ==
    [user_id |-> p.user_id, level |-> p.level, experience |-> p.experience,
     experience_to_next_level |-> p.experience_to_next_level,
     credits |-> p.credits, health |-> p.health, max_health |-> p.max_health,
     attack |-> p.attack, defense |-> p.defense, speed |-> p.speed,
     critical_damage |-> p.critical_damage, combat_wins |-> p.combat_wins,
     combat_losses |-> p.combat_losses,
     last_combat |-> IF p.last_combat # NoTime THEN isoformat(p.last_combat)
                     ELSE None,
     last_search |-> IF p.last_search # NoTime THEN isoformat(p.last_search)
                     ELSE None,
     inventory |-> [i \in 1..Len(p.inventory) |-> item_to_dict(p.inventory[i])]]

RECURSIVE restore_inventory(_, _)
\* the loop of from_dict over data["inventory"], lines 256-259
restore_inventory(p, items) ==
    IF items = <<>> THEN p
    ELSE restore_inventory(add_item(p, item_from_dict(Head(items))), Tail(items))

\* Player.from_dict
from_dict(data) ==
    LET fresh == [NewPlayer EXCEPT
                    !.user_id = data.user_id,
                    !.level = data.level,
                    !.experience = data.experience,
                    !.experience_to_next_level = data.experience_to_next_level,
                    !.credits = data.credits,
                    !.health = data.health,
                    !.max_health = data.max_health,
                    !.attack = data.attack,
                    !.defense = data.defense,
                    !.speed = data.speed,
                    !.critical_damage = data.critical_damage,
                    !.combat_wins = data.combat_wins,
                    !.combat_losses = data.combat_losses,
                    !.last_combat = IF data.last_combat # None
                                    THEN fromisoformat(data.last_combat)
                                    ELSE NoTime,
                    !.last_search = IF data.last_search # None
                                    THEN fromisoformat(data.last_search)
                                    ELSE NoTime]
    IN  restore_inventory(fresh, data.inventory)

\* ------------------------------------------------- combat.py: the formulas
\* the damage formula without its final clamp
calculate_damage_noclamp(attack, defense, critical_chance, roll, jitter) ==
    LET base_damage == Max(1, attack - (defense \div 2))
        crit_damage == IF roll <= critical_chance THEN IntTimes15(base_damage)
                       ELSE base_damage
    IN  crit_damage + jitter

\* the damage formula taking the whole defense off the attack
calculate_damage_full_defense(attack, defense, critical_chance, roll, jitter) ==
    LET base_damage == Max(1, attack - defense)
        crit_damage == IF roll <= critical_chance THEN IntTimes15(base_damage)
                       ELSE base_damage
        final_damage == crit_damage + jitter
    IN  Max(1, final_damage)

\* _calculate_damage with its two draws made explicit: roll = randint(1, 100),
\* jitter = randint(-2, 2)
calculate_damage(attack, defense, critical_chance, roll, jitter) ==
    LET base_damage == Max(1, attack - (defense \div 2))
        crit_damage == IF roll <= critical_chance THEN IntTimes15(base_damage)
                       ELSE base_damage
        final_damage == crit_damage + jitter
    IN  Max(1, final_damage)

\* the player's strike in _execute_round (lines 187 and 216)
player_attack(stats, npc, roll, jitter) ==
    calculate_damage(stats.attack, npc.defense, stats.critical_damage, roll, jitter)

\* the opponent's strike rolled against the player's critical chance
opponent_attack_player_crit(stats, npc, roll, jitter) ==
    calculate_damage(npc.attack, stats.defense, stats.critical_damage, roll, jitter)

\* the opponent's strike in _execute_round (lines 198 and 205)
opponent_attack(stats, npc, roll, jitter) ==
    calculate_damage(npc.attack, stats.defense, npc.critical_damage, roll, jitter)

\* the experience reward with the currency factor 0.2 on the losing branch
calculate_experience_reward_lost02(p, npc, victory) ==
    LET base_exp == npc.level * 10
        won == IntTimes15(base_exp)
                + (IF npc.level > p.level THEN (npc.level - p.level) * 5 ELSE 0)
        lost == IntTimes02(base_exp)
    IN  Max(1, IF victory THEN won ELSE lost)

\* the experience reward with the bonus paid on any level difference
calculate_experience_reward_absdiff(p, npc, victory) ==
    LET base_exp == npc.level * 10
        won == IntTimes15(base_exp) + Abs(npc.level - p.level) * 5
        lost == IntTimes03(base_exp)
    IN  Max(1, IF victory THEN won ELSE lost)

calculate_experience_reward(p, npc, victory) ==
    LET base_exp == npc.level * 10
        won == IntTimes15(base_exp)
                + (IF npc.level > p.level THEN (npc.level - p.level) * 5 ELSE 0)
        lost == IntTimes03(base_exp)
    IN  Max(1, IF victory THEN won ELSE lost)

\* the currency reward with the bonus added before the victory multiplier
calculate_credits_reward_bonus_first(p, npc, victory) ==
    LET base_credits == npc.level * 5
        won == IntTimes15(base_credits
                + (IF npc.level > p.level THEN (npc.level - p.level) * 3 ELSE 0))
        lost == IntTimes02(base_credits)
    IN  Max(0, IF victory THEN won ELSE lost)

\* the currency reward with a bonus per win already counted
calculate_credits_reward_streak(p, npc, victory) ==
    LET base_credits == npc.level * 5
        won == IntTimes15(base_credits)
                + (IF npc.level > p.level THEN (npc.level - p.level) * 3 ELSE 0)
        lost == IntTimes02(base_credits)
    IN  Max(0, (IF victory THEN won ELSE lost) + p.combat_wins)

calculate_credits_reward(p, npc, victory) ==
    LET base_credits == npc.level * 5
        won == IntTimes15(base_credits)
                + (IF npc.level > p.level THEN (npc.level - p.level) * 3 ELSE 0)
        lost == IntTimes02(base_credits)
    IN  Max(0, IF victory THEN won ELSE lost)

\* find_opponent without the level filter
suitable_npcs_any_level(p) ==
    DOMAIN npc_database

\* the level filter compared strictly
suitable_npcs_strict(p) ==
    {i \in DOMAIN npc_database : Abs(npc_database[i].level - p.level) < 3}

\* the indices of the NPCs find_opponent collects in suitable_npcs
suitable_npcs(p) ==
    {i \in DOMAIN npc_database : Abs(npc_database[i].level - p.level) <= 3}

\* --------------------------------------------------- states of the caller
NoStats == [attack |-> 0, defense |-> 0, speed |-> 0, critical_damage |-> 0]
NoResult == [result |-> "none", player_damage |-> 0, opponent_damage |-> 0,
             experience_gained |-> 0, credits_gained |-> 0, rounds |-> 0]
NoProbe == [kind |-> "none"]

\* ---------------------------------------------------------------- actions
\* CombatSystem.find_opponent(player), as the combat action calls it
FindOpponent ==
    /\ pc = "idle"
    /\ Len(combat_history) < MaxBattles
    /\ IF suitable_npcs(player) = {}
       THEN opponent' = 0
       ELSE \E i \in suitable_npcs(player) : opponent' = i
    /\ pc' = "selected"
    /\ UNCHANGED <<player, npc_database, combat_history, now, player_stats,
                   player_health, opponent_health, round_num, nrounds, first,
                   result, probe>>

\* When probe.kind = "action" the probe holds the result dict of
\* process_player_action: 'success' and 'message' as created at lines 179-184.
NoAction == [kind |-> "action", success |-> FALSE, message |-> ""]

\* the combat action marking the cooldown before it looks at the opponent
NoOpponentFoundAfterMark ==
    /\ pc = "selected"
    /\ opponent = 0
    /\ pc' = "idle"
    /\ player' = start_combat(player, now)
    /\ probe' = IF probe.kind = "action"
                THEN [probe EXCEPT !.message = "no opponent, try later"]
                ELSE probe
    /\ UNCHANGED <<npc_database, combat_history, now, opponent,
                   player_stats, player_health, opponent_health, round_num,
                   nrounds, first, result>>

\* process_player_action: "if not opponent: return result" with the message
\* of line 195
NoOpponentFound ==
    /\ pc = "selected"
    /\ opponent = 0
    /\ pc' = "idle"
    /\ probe' = IF probe.kind = "action"
                THEN [probe EXCEPT !.message = "no opponent, try later"]
                ELSE probe
    /\ UNCHANGED <<player, npc_database, combat_history, now, opponent,
                   player_stats, player_health, opponent_health, round_num,
                   nrounds, first, result>>

\* the set-up of execute_battle without the cooldown mark
ExecuteBattleStartUnmarked ==
    /\ pc = "selected"
    /\ opponent # 0
    /\ player_stats' = get_total_stats(player)
    /\ player_health' = player.health
    /\ opponent_health' = npc_database[opponent].health
    /\ nrounds' = 0
    /\ round_num' = 1
    /\ first' = "none"
    /\ pc' = "loop"
    /\ UNCHANGED <<player, npc_database, combat_history, now, opponent, result,
                   probe>>

\* When probe.kind = "engine" the probe follows the combat action of
\* process_player_action: 'success' and 'message' of the last result dict, the
\* time the battle before began (started), whether a daily reset came after
\* it (reset) and whether time has passed since (waited).
EngineWatched == probe.kind = "engine"

\* execute_battle, lines 79-89: cooldown mark, aggregated stats, loop set-up
ExecuteBattleStart ==
    /\ pc = "selected"
    /\ opponent # 0
    /\ player' = start_combat(player, now)
    /\ player_stats' = get_total_stats(player)
    /\ player_health' = player.health
    /\ opponent_health' = npc_database[opponent].health
    /\ nrounds' = 0
    /\ round_num' = 1
    /\ first' = "none"
    /\ pc' = "loop"
    /\ probe' = IF EngineWatched
                THEN [probe EXCEPT !.started = now, !.reset = FALSE,
                                   !.waited = FALSE]
                ELSE probe
    /\ UNCHANGED <<npc_database, combat_history, now, opponent, result>>

\* the loop without its round cap
LoopConditionNoCap ==
    player_health > 0 /\ opponent_health > 0

\* the loop with the cap compared strictly
LoopConditionStrict ==
    player_health > 0 /\ opponent_health > 0 /\ round_num < RoundCap

\* the loop going on while either side stands
LoopConditionEitherAlive ==
    (player_health > 0 \/ opponent_health > 0) /\ round_num <= RoundCap

\* the while condition of execute_battle, line 92
LoopCondition ==
    player_health > 0 /\ opponent_health > 0 /\ round_num <= RoundCap

\* When probe.kind is "scenario" or "engine" every draw of a battle gives the
\* midpoint of its range: jitter 0 and a critical roll of 50; otherwise the
\* draws are free.
ScenarioJitter == {(JitterLow + JitterHigh) \div 2}
ScenarioRolls == {(1 + 100) \div 2}
MidpointDraws == probe.kind \in {"scenario", "engine"}
RoundJitter == IF MidpointDraws THEN ScenarioJitter ELSE Jitter
RoundRolls == IF MidpointDraws THEN ScenarioRolls ELSE BattleRolls

\* When probe.kind = "round" the probe holds the round_result dict of the round
\* being played, with the two initiatives drawn for it and the healths the
\* round was called with; otherwise the rounds are kept by their number only.
Observed == probe.kind = "round"

\* the round_result dict as _execute_round creates it, lines 171-178
NewRoundResult(rn, ph, oh) ==
    [round |-> rn, player_health |-> ph, opponent_health |-> oh,
     player_damage |-> 0, opponent_damage |-> 0, events |-> <<>>]

NoRound ==
    [kind |-> "round", player_initiative |-> 0, opponent_initiative |-> 0,
     before_player_health |-> 0, before_opponent_health |-> 0,
     round_result |-> NewRoundResult(0, 0, 0)]

\* the order of attacks with ties given to the opponent
attacks_first_strict(player_initiative, opponent_initiative) ==
    IF player_initiative > opponent_initiative THEN "player" ELSE "opponent"

\* "if player_initiative >= opponent_initiative", line 185
attacks_first(player_initiative, opponent_initiative) ==
    IF player_initiative >= opponent_initiative THEN "player" ELSE "opponent"

\* a defender counted as beaten only below 0
defeated_below_zero(health) == health < 0

\* "if opponent_health <= 0" / "if player_health <= 0", lines 193 and 211
defeated(health) == health <= 0

\* the player's strike written into round_result, lines 190-191 / 218-219
PlayerStrikes(rr, damage) ==
    [rr EXCEPT !.opponent_damage = damage,
               !.events = Append(@, [by |-> "player", damage |-> damage])]

\* the opponent's strike written into round_result, lines 200-201 / 207-208
OpponentStrikes(rr, damage) ==
    [rr EXCEPT !.player_damage = damage,
               !.events = Append(@, [by |-> "opponent", damage |-> damage])]

\* a strike taking the health below 0
health_after_unfloored(health, damage) ==
    health - damage

\* the defender's health after a strike, lines 189, 199, 206 and 217
health_after(health, damage) ==
    Max(0, health - damage)

\* _execute_round, lines 171-185: round_result is created, both initiatives
\* are drawn and compared
RoundInitiative ==
    /\ pc = "loop"
    /\ LoopCondition
    /\ \E pj \in RoundJitter, oj \in RoundJitter :
         LET player_initiative == player_stats.speed + pj
             opponent_initiative == npc_database[opponent].speed + oj
         IN  /\ first' = attacks_first(player_initiative, opponent_initiative)
             /\ probe' = IF Observed
                         THEN [probe EXCEPT
                                 !.player_initiative = player_initiative,
                                 !.opponent_initiative = opponent_initiative,
                                 !.before_player_health = player_health,
                                 !.before_opponent_health = opponent_health,
                                 !.round_result =
                                     NewRoundResult(round_num, player_health,
                                                    opponent_health)]
                         ELSE probe
    /\ pc' = "first"
    /\ UNCHANGED <<player, npc_database, combat_history, now, opponent,
                   player_stats, player_health, opponent_health, round_num,
                   nrounds, result>>

\* the first strike of _execute_round (lines 186-195 / 204-213), with the loop
\* body's bookkeeping (lines 98-102) when the round ends there
RoundFirstStrike ==
    /\ pc = "first"
    /\ \E roll \in RoundRolls, jitter \in RoundJitter :
         LET npc == npc_database[opponent]
             player_damage == player_attack(player_stats, npc, roll, jitter)
             opponent_damage == opponent_attack(player_stats, npc, roll, jitter)
             ph == IF first = "player" THEN player_health
                   ELSE health_after(player_health, opponent_damage)
             oh == IF first = "player"
                   THEN health_after(opponent_health, player_damage)
                   ELSE opponent_health
             over == IF first = "player" THEN defeated(oh) ELSE defeated(ph)
             struck == IF first = "player"
                       THEN PlayerStrikes(probe.round_result, player_damage)
                       ELSE OpponentStrikes(probe.round_result, opponent_damage)
         IN  /\ player_health' = ph
             /\ opponent_health' = oh
             /\ IF over
                THEN /\ pc' = "loop"
                     /\ first' = "none"
                     /\ nrounds' = nrounds + 1
                     /\ round_num' = round_num + 1
                ELSE /\ pc' = "second"
                     /\ UNCHANGED <<first, nrounds, round_num>>
             /\ probe' = IF ~Observed THEN probe
                         ELSE IF ~over THEN [probe EXCEPT !.round_result = struck]
                         ELSE IF first = "player"
                         THEN [probe EXCEPT !.round_result =
                                   [struck EXCEPT !.opponent_health = 0]]
                         ELSE [probe EXCEPT !.round_result =
                                   [struck EXCEPT !.player_health = 0]]
    /\ UNCHANGED <<player, npc_database, combat_history, now, opponent,
                   player_stats, result>>

\* the second strike of _execute_round (lines 197-201 / 215-222) and the loop
\* body's bookkeeping (lines 98-102)
RoundSecondStrike ==
    /\ pc = "second"
    /\ \E roll \in RoundRolls, jitter \in RoundJitter :
         LET npc == npc_database[opponent]
             player_damage == player_attack(player_stats, npc, roll, jitter)
             opponent_damage == opponent_attack(player_stats, npc, roll, jitter)
             ph == IF first = "player"
                   THEN health_after(player_health, opponent_damage)
                   ELSE player_health
             oh == IF first = "player" THEN opponent_health
                   ELSE health_after(opponent_health, player_damage)
             struck == IF first = "player"
                       THEN OpponentStrikes(probe.round_result, opponent_damage)
                       ELSE PlayerStrikes(probe.round_result, player_damage)
         IN  /\ player_health' = ph
             /\ opponent_health' = oh
             /\ probe' = IF Observed
                         THEN [probe EXCEPT !.round_result =
                                   [struck EXCEPT !.player_health = ph,
                                                  !.opponent_health = oh]]
                         ELSE probe
    /\ first' = "none"
    /\ nrounds' = nrounds + 1
    /\ round_num' = round_num + 1
    /\ pc' = "loop"
    /\ UNCHANGED <<player, npc_database, combat_history, now, opponent,
                   player_stats, result>>

\* the outcome tag of execute_battle, lines 105-131
Outcome(ph, oh) ==
    IF ph > 0 /\ oh <= 0 THEN "victory"
    ELSE IF oh > 0 /\ ph <= 0 THEN "defeat"
    ELSE "draw"

\* a draw rewarded as a victory
is_victory_or_draw(tag) == tag # "defeat"

\* the victory argument the outcome branches pass to the reward calculators
\* (True at lines 109-110, False at lines 120-121 and 130-131)
is_victory(tag) == tag = "victory"

\* the outcome branch with a defeat branch that counts nothing
SettleOutcomeLossUncounted(p, npc, ph, oh) ==
    LET tag == Outcome(ph, oh)
        experience_gained == calculate_experience_reward(p, npc, is_victory(tag))
        credits_gained == calculate_credits_reward(p, npc, is_victory(tag))
        counted == IF tag = "victory" THEN [p EXCEPT !.combat_wins = @ + 1]
                   ELSE p
        rewarded == add_credits(add_experience(counted, experience_gained),
                                credits_gained)
    IN  [rewarded EXCEPT !.health = Max(1, ph)]

\* the outcome branch writing the simulated health back before the rewards,
\* so that a level-up's full restore is what stays
SettleOutcomeHealthFirst(p, npc, ph, oh) ==
    LET tag == Outcome(ph, oh)
        experience_gained == calculate_experience_reward(p, npc, is_victory(tag))
        credits_gained == calculate_credits_reward(p, npc, is_victory(tag))
        counted == IF tag = "victory" THEN [p EXCEPT !.combat_wins = @ + 1]
                   ELSE IF tag = "defeat" THEN [p EXCEPT !.combat_losses = @ + 1]
                   ELSE p
        written == [counted EXCEPT !.health = Max(1, ph)]
    IN  add_credits(add_experience(written, experience_gained), credits_gained)

\* the outcome branch writing the simulated health back without the floor of 1
SettleOutcomeNoFloor(p, npc, ph, oh) ==
    LET tag == Outcome(ph, oh)
        counted == IF tag = "victory" THEN [p EXCEPT !.combat_wins = @ + 1]
                   ELSE IF tag = "defeat" THEN [p EXCEPT !.combat_losses = @ + 1]
                   ELSE p
        rewarded == add_credits(
                        add_experience(counted,
                            calculate_experience_reward(p, npc, tag = "victory")),
                        calculate_credits_reward(p, npc, tag = "victory"))
    IN  [rewarded EXCEPT !.health = ph]

\* the outcome branch counting a draw as a lost battle
SettleOutcomeDrawLost(p, npc, ph, oh) ==
    LET tag == Outcome(ph, oh)
        experience_gained == calculate_experience_reward(p, npc, tag = "victory")
        credits_gained == calculate_credits_reward(p, npc, tag = "victory")
        counted == IF tag = "victory" THEN [p EXCEPT !.combat_wins = @ + 1]
                   ELSE [p EXCEPT !.combat_losses = @ + 1]
        rewarded == add_credits(add_experience(counted, experience_gained),
                                credits_gained)
    IN  [rewarded EXCEPT !.health = Max(1, ph)]

\* the player after the outcome branch of execute_battle, lines 105-140
SettleOutcome(p, npc, ph, oh) ==
    LET tag == Outcome(ph, oh)
        experience_gained == calculate_experience_reward(p, npc, is_victory(tag))
        credits_gained == calculate_credits_reward(p, npc, is_victory(tag))
        counted == IF tag = "victory" THEN [p EXCEPT !.combat_wins = @ + 1]
                   ELSE IF tag = "defeat" THEN [p EXCEPT !.combat_losses = @ + 1]
                   ELSE p
        rewarded == add_credits(add_experience(counted, experience_gained),
                                credits_gained)
    IN  [rewarded EXCEPT !.health = Max(1, ph)]

\* a record that stores the loop counter in place of the number of rounds
battle_record_counter(t, p, npc, tag, rounds, experience_gained, credits_gained) ==
    [timestamp |-> t, player_id |-> p.user_id, opponent_name |-> npc.name,
     result |-> tag, rounds |-> rounds + 1,
     experience_gained |-> experience_gained, credits_gained |-> credits_gained]

\* the battle_record dict of execute_battle, lines 146-154
battle_record(t, p, npc, tag, rounds, experience_gained, credits_gained) ==
    [timestamp |-> t, player_id |-> p.user_id, opponent_name |-> npc.name,
     result |-> tag, rounds |-> rounds,
     experience_gained |-> experience_gained, credits_gained |-> credits_gained]

\* ticks the clock may have moved between the two datetime.now() of one
\* execute_battle (start_combat, line 79, and the record's timestamp, line 147)
BattleSeconds == {0, 1}

\* execute_battle computing the currency once the experience is applied, so
\* that a level-up of this battle already counts
FinishBattleCreditsAfterExperience ==
    /\ pc = "loop"
    /\ ~LoopCondition
    /\ \E elapsed \in BattleSeconds : now' = now + elapsed
    /\ LET npc == npc_database[opponent]
           tag == Outcome(player_health, opponent_health)
           experience_gained == calculate_experience_reward(player, npc, is_victory(tag))
           counted == IF tag = "victory" THEN [player EXCEPT !.combat_wins = @ + 1]
                      ELSE IF tag = "defeat"
                      THEN [player EXCEPT !.combat_losses = @ + 1]
                      ELSE player
           grown == add_experience(counted, experience_gained)
           credits_gained == calculate_credits_reward(grown, npc, is_victory(tag))
           after == [add_credits(grown, credits_gained)
                        EXCEPT !.health = Max(1, player_health)]
       IN  /\ player' = after
           /\ combat_history' = Append(combat_history,
                  battle_record(now', after, npc, tag, nrounds,
                                experience_gained, credits_gained))
           /\ result' = [result |-> tag,
                         player_damage |-> after.max_health - player_health,
                         opponent_damage |-> npc.max_health - opponent_health,
                         experience_gained |-> experience_gained,
                         credits_gained |-> credits_gained,
                         rounds |-> nrounds]
    /\ pc' = "idle"
    /\ opponent' = 0
    /\ UNCHANGED <<npc_database, player_stats, player_health, opponent_health,
                   round_num, nrounds, first, probe>>

\* execute_battle writing the opponent's final health into its template
FinishBattleOnTemplate ==
    /\ pc = "loop"
    /\ ~LoopCondition
    /\ \E elapsed \in BattleSeconds : now' = now + elapsed
    /\ LET npc == npc_database[opponent]
           tag == Outcome(player_health, opponent_health)
           experience_gained == calculate_experience_reward(player, npc, is_victory(tag))
           credits_gained == calculate_credits_reward(player, npc, is_victory(tag))
           after == SettleOutcome(player, npc, player_health, opponent_health)
       IN  /\ player' = after
           /\ combat_history' = Append(combat_history,
                  battle_record(now', after, npc, tag, nrounds,
                                experience_gained, credits_gained))
           /\ result' = [result |-> tag,
                         player_damage |-> after.max_health - player_health,
                         opponent_damage |-> npc.max_health - opponent_health,
                         experience_gained |-> experience_gained,
                         credits_gained |-> credits_gained,
                         rounds |-> nrounds]
    /\ pc' = "idle"
    /\ opponent' = 0
    /\ npc_database' = [npc_database EXCEPT ![opponent].health = opponent_health]
    /\ UNCHANGED <<player_stats, player_health, opponent_health,
                   round_num, nrounds, first, probe>>

\* execute_battle storing a history that holds this battle's record alone
FinishBattleOverwritesHistory ==
    /\ pc = "loop"
    /\ ~LoopCondition
    /\ \E elapsed \in BattleSeconds : now' = now + elapsed
    /\ LET npc == npc_database[opponent]
           tag == Outcome(player_health, opponent_health)
           experience_gained == calculate_experience_reward(player, npc, is_victory(tag))
           credits_gained == calculate_credits_reward(player, npc, is_victory(tag))
           after == SettleOutcome(player, npc, player_health, opponent_health)
       IN  /\ player' = after
           /\ combat_history' = Append(<<>>,
                  battle_record(now', after, npc, tag, nrounds,
                                experience_gained, credits_gained))
           /\ result' = [result |-> tag,
                         player_damage |-> after.max_health - player_health,
                         opponent_damage |-> npc.max_health - opponent_health,
                         experience_gained |-> experience_gained,
                         credits_gained |-> credits_gained,
                         rounds |-> nrounds]
    /\ pc' = "idle"
    /\ opponent' = 0
    /\ UNCHANGED <<npc_database, player_stats, player_health, opponent_health,
                   round_num, nrounds, first, probe>>

\* execute_battle after the loop, lines 104-166
FinishBattle ==
    /\ pc = "loop"
    /\ ~LoopCondition
    /\ \E elapsed \in BattleSeconds : now' = now + elapsed
    /\ LET npc == npc_database[opponent]
           tag == Outcome(player_health, opponent_health)
           experience_gained == calculate_experience_reward(player, npc, is_victory(tag))
           credits_gained == calculate_credits_reward(player, npc, is_victory(tag))
           after == SettleOutcome(player, npc, player_health, opponent_health)
       IN  /\ player' = after
           /\ combat_history' = Append(combat_history,
                  battle_record(now', after, npc, tag, nrounds,
                                experience_gained, credits_gained))
           /\ result' = [result |-> tag,
                         player_damage |-> after.max_health - player_health,
                         opponent_damage |-> npc.max_health - opponent_health,
                         experience_gained |-> experience_gained,
                         credits_gained |-> credits_gained,
                         rounds |-> nrounds]
    /\ pc' = "idle"
    /\ opponent' = 0
    /\ probe' = IF EngineWatched
                THEN [probe EXCEPT !.success = TRUE,
                                   !.message = [text |-> "battle", seconds |-> 0]]
                ELSE probe
    /\ UNCHANGED <<npc_database, player_stats, player_health, opponent_health,
                   round_num, nrounds, first>>

\* get_combat_stats, lines 299-324: the player's records in the history and
\* the counts taken from them (the two rounded averages are left out)
player_battles(history, p) ==
    {i \in DOMAIN history : history[i].player_id = p.user_id}

get_combat_stats(history, p) ==
    LET mine == player_battles(history, p)
    IN  [total_battles |-> Cardinality(mine),
         wins |-> Cardinality({i \in mine : history[i].result = "victory"}),
         losses |-> Cardinality({i \in mine : history[i].result = "defeat"})]

\* ------------------------------------------------------- initial states
\* A player some way into the game: items picked up by add_item, experience
\* gathered below the first threshold, health lowered by earlier damage.
PlayedPlayer(items, experience, health) ==
    LET equipped == IF items = <<>> THEN NewPlayer ELSE add_item(NewPlayer, items[1])
        grown == add_experience(equipped, experience)
    IN  [grown EXCEPT !.health = health]

InitInventories == {<<>>, <<HronoBlaster>>}
InitExperience == {0, 90}
InitHealths == {0, 22}

InitPlayers ==
    {PlayedPlayer(items, experience, health) :
        items \in InitInventories, experience \in InitExperience,
        health \in InitHealths}

InitSystem ==
    /\ npc_database = create_npc_database
    /\ combat_history = <<>>
    /\ now = 0
    /\ pc = "idle"
    /\ opponent = 0
    /\ player_stats = NoStats
    /\ player_health = 0
    /\ opponent_health = 0
    /\ round_num = 0
    /\ nrounds = 0
    /\ first = "none"
    /\ result = NoResult

Init ==
    /\ InitSystem
    /\ player \in InitPlayers
    /\ probe = NoProbe

Next ==
    \/ FindOpponent
    \/ ExecuteBattleStart
    \/ RoundInitiative
    \/ RoundFirstStrike
    \/ RoundSecondStrike
    \/ FinishBattle

Spec == Init /\ [][Next]_vars

\* One call of execute_battle on its own, for players whose battles are long:
\* the caller holds an opponent find_opponent returned and calls the engine.
BattlePlayers ==
    {PlayedPlayer(<<>>, 0, 100), PlayedPlayer(<<>>, 0, 0),
     PlayedPlayer(<<HronoShield>>, 0, 22)}

InitBattle ==
    /\ InitSystem
    /\ player \in BattlePlayers
    /\ probe = NoProbe

\* the caller of process_player_action's combat branch, once
FindOpponentOnce ==
    /\ combat_history = <<>>
    /\ FindOpponent

NextBattle ==
    \/ FindOpponentOnce
    \/ ExecuteBattleStart
    \/ RoundInitiative
    \/ RoundFirstStrike
    \/ RoundSecondStrike
    \/ FinishBattle

SpecBattle == InitBattle /\ [][NextBattle]_vars

\* ------------------------------------------------- battles and the clock
\* time passes between two calls of the engine
Tick ==
    /\ pc = "idle"
    /\ now < MaxTime
    /\ now' = now + 1
    /\ UNCHANGED <<player, npc_database, combat_history, pc, opponent,
                   player_stats, player_health, opponent_health, round_num,
                   nrounds, first, result, probe>>

\* players whose one battle ends in a victory, a defeat or a draw
CooldownPlayers ==
    {PlayedPlayer(<<HronoBlaster>>, 90, 22), PlayedPlayer(<<>>, 0, 0),
     PlayedPlayer(<<HronoShield>>, 0, 22)}

InitCooldown ==
    /\ InitSystem
    /\ player \in CooldownPlayers
    /\ probe = NoProbe

NextCooldown ==
    \/ Tick
    \/ FindOpponentOnce
    \/ ExecuteBattleStart
    \/ RoundInitiative
    \/ RoundFirstStrike
    \/ RoundSecondStrike
    \/ FinishBattle

SpecCooldown == InitCooldown /\ [][NextCooldown]_vars

\* ------------------------------------------------ rounds under observation
\* players weak enough to fall to a first strike, or armed well enough to
\* fell the opponent with one
RoundPlayers ==
    {PlayedPlayer(<<HronoBlaster>>, 0, 5), PlayedPlayer(<<>>, 0, 5),
     PlayedPlayer(<<>>, 0, 22)}

InitRound ==
    /\ InitSystem
    /\ player \in RoundPlayers
    /\ probe = NoRound

SpecRound == InitRound /\ [][NextBattle]_vars

\* ------------------------------------------- the damage formula on its own
CritChances == {0, 15, 100}

DamageProbes ==
    [kind : {"damage"}, who : {"player", "opponent"},
     attack : 0..MaxStat, defense : 0..MaxStat, critical_chance : CritChances,
     roll : Rolls, jitter : Jitter, called : {FALSE}, damage : {0}]

\* The aggregated profile and the template of a probed strike: the attacker's
\* attack and critical chance and the defender's defense come from the probe,
\* the fields the strike must not read hold other values.
ProbeStats(pr) ==
    IF pr.who = "player"
    THEN [attack |-> pr.attack, defense |-> pr.defense + 2, speed |-> 8,
          critical_damage |-> pr.critical_chance]
    ELSE [attack |-> pr.attack + 3, defense |-> pr.defense, speed |-> 8,
          critical_damage |-> 100 - pr.critical_chance]

ProbeNpc(pr) ==
    IF pr.who = "player"
    THEN [NPC("probe", 1, 80, pr.attack + 3, pr.defense, 7)
            EXCEPT !.critical_damage = 100 - pr.critical_chance]
    ELSE [NPC("probe", 1, 80, pr.attack, pr.defense + 2, 7)
            EXCEPT !.critical_damage = pr.critical_chance]

InitDamage ==
    /\ InitSystem
    /\ player = NewPlayer
    /\ probe \in DamageProbes

\* one strike of _execute_round with the dice of the probe
ProbeDamage ==
    /\ probe.kind = "damage"
    /\ ~probe.called
    /\ probe' = [probe EXCEPT
                   !.called = TRUE,
                   !.damage = IF probe.who = "player"
                              THEN player_attack(ProbeStats(probe), ProbeNpc(probe),
                                                 probe.roll, probe.jitter)
                              ELSE opponent_attack(ProbeStats(probe), ProbeNpc(probe),
                                                   probe.roll, probe.jitter)]
    /\ UNCHANGED <<player, npc_database, combat_history, now, pc, opponent,
                   player_stats, player_health, opponent_health, round_num,
                   nrounds, first, result>>

NextDamage == ProbeDamage

SpecDamage == InitDamage /\ [][NextDamage]_vars

\* ------------------------------------------------ players of every level
\* the player gains exactly the experience the next level needs
GainLevel ==
    /\ pc = "idle"
    /\ probe.kind = "reward" => probe.calls = 0
    /\ player.level < MaxProbeLevel
    /\ player' = add_experience(player,
                                player.experience_to_next_level - player.experience)
    /\ UNCHANGED <<npc_database, combat_history, now, pc, opponent, player_stats,
                   player_health, opponent_health, round_num, nrounds, first,
                   result, probe>>

\* ------------------------------------------- opponent selection on its own
InitSelect ==
    /\ InitSystem
    /\ player = NewPlayer
    /\ probe = NoAction

NextSelect ==
    \/ GainLevel
    \/ FindOpponent
    \/ NoOpponentFound

SpecSelect == InitSelect /\ [][NextSelect]_vars

\* ------------------------------------------ the reward formulas on their own
RewardProbes ==
    [kind : {"reward"}, npc : {NPC("probe", level, 80, 12, 6, 7) : level \in 1..MaxProbeLevel},
     victory : BOOLEAN, calls : {0}, perturbed : {FALSE},
     experience : {<<>>}, credits : {<<>>}, player_before : {NewPlayer}]

InitReward ==
    /\ InitSystem
    /\ player = NewPlayer
    /\ probe \in RewardProbes

\* _calculate_experience_reward and _calculate_credits_reward called as
\* execute_battle calls them; the probe keeps every value returned
ProbeRewards ==
    /\ probe.kind = "reward"
    /\ probe.calls < 2
    /\ probe.calls = 1 => probe.perturbed
    /\ probe' = [probe EXCEPT
                   !.calls = @ + 1,
                   !.experience = Append(@,
                        calculate_experience_reward(player, probe.npc, probe.victory)),
                   !.credits = Append(@,
                        calculate_credits_reward(player, probe.npc, probe.victory)),
                   !.player_before = player]
    /\ UNCHANGED <<player, npc_database, combat_history, now, pc, opponent,
                   player_stats, player_health, opponent_health, round_num,
                   nrounds, first, result>>

\* between two calls the game goes on without changing a level: currency is
\* earned, an item is found, damage is taken, a battle is recorded
PerturbPlayer ==
    /\ probe.kind = "reward"
    /\ probe.calls = 1
    /\ ~probe.perturbed
    /\ \/ /\ player' = add_credits(player, 50)
          /\ UNCHANGED combat_history
       \/ /\ player' = add_item(player, HronoBlaster)
          /\ UNCHANGED combat_history
       \/ /\ player' = take_damage(player, 25)
          /\ UNCHANGED combat_history
       \/ /\ player' = [player EXCEPT !.combat_wins = @ + 1]
          /\ combat_history' = Append(combat_history,
                 [timestamp |-> now, player_id |-> player.user_id,
                  opponent_name |-> probe.npc.name, result |-> "victory",
                  rounds |-> 1, experience_gained |-> probe.experience[1],
                  credits_gained |-> probe.credits[1]])
    /\ probe' = [probe EXCEPT !.perturbed = TRUE]
    /\ UNCHANGED <<npc_database, now, pc, opponent, player_stats, player_health,
                   opponent_health, round_num, nrounds, first, result>>

NextReward ==
    \/ GainLevel
    \/ ProbeRewards
    \/ PerturbPlayer

SpecReward == InitReward /\ [][NextReward]_vars

\* ------------------------------------------------ add_experience on its own
\* the player after gaining exactly the experience the next level needs
Promoted(p) == add_experience(p, p.experience_to_next_level - p.experience)

LevelPlayers == {NewPlayer, Promoted(NewPlayer), Promoted(Promoted(NewPlayer))}

Gains == 0..MaxGain

InitLevel ==
    /\ InitSystem
    /\ player \in LevelPlayers
    /\ probe = [kind |-> "level", stage |-> "fresh", amount |-> 0,
                leveled_up |-> FALSE, before |-> player]

\* an earlier gain, which leaves some experience on the way to the next level
PriorGain ==
    /\ probe.kind = "level"
    /\ probe.stage = "fresh"
    /\ \E amount \in Gains : player' = add_experience(player, amount)
    /\ probe' = [probe EXCEPT !.stage = "played"]
    /\ UNCHANGED <<npc_database, combat_history, now, pc, opponent, player_stats,
                   player_health, opponent_health, round_num, nrounds, first,
                   result>>

\* one call player.add_experience(amount); the probe keeps the player the call
\* found, the amount and the returned flag
ProbeExperience ==
    /\ probe.kind = "level"
    /\ probe.stage \in {"fresh", "played"}
    /\ \E amount \in Gains :
         /\ player' = add_experience(player, amount)
         /\ probe' = [probe EXCEPT
                        !.stage = "called",
                        !.amount = amount,
                        !.leveled_up = add_experience_returns(player, amount),
                        !.before = player]
    /\ UNCHANGED <<npc_database, combat_history, now, pc, opponent, player_stats,
                   player_health, opponent_health, round_num, nrounds, first,
                   result>>

NextLevel ==
    \/ PriorGain
    \/ ProbeExperience

SpecLevel == InitLevel /\ [][NextLevel]_vars

\* ------------------------------------------- battles with midpoint draws
\* level-1 players of every health, the new player with 100 among them
ScenarioPlayers ==
    {[NewPlayer EXCEPT !.health = h] : h \in 1..NewPlayer.max_health}

InitScenario ==
    /\ InitSystem
    /\ player \in ScenarioPlayers
    /\ probe = [kind |-> "scenario", player_before |-> player]

SpecScenario == InitScenario /\ [][NextBattle]_vars

\* ------------------------------------------ experience over many battles
\* When probe.kind = "progress" the rounds of a battle are not played one by
\* one: the loop of execute_battle is taken as one step that leaves in any of
\* the ways its condition allows. probe.prepared tells that the player was
\* brought to its level and experience by earlier play.
NoProgress == [kind |-> "progress", prepared |-> FALSE]

InitProgress ==
    /\ InitSystem
    /\ player = NewPlayer
    /\ probe = NoProgress

\* the gains of earlier play that matter to the next threshold: the one that
\* reaches it exactly and the one that stops one point short of it
EarlierGains(p) ==
    {p.experience_to_next_level - p.experience,
     p.experience_to_next_level - 1 - p.experience} \ {0}

\* player.add_experience(amount) called before the battles looked at
EarlierPlay ==
    /\ probe.kind = "progress"
    /\ pc = "idle"
    /\ combat_history = <<>>
    /\ player.level < MaxProbeLevel
    /\ \E amount \in EarlierGains(player) :
         player' = add_experience(player, amount)
    /\ probe' = [probe EXCEPT !.prepared = TRUE]
    /\ UNCHANGED <<npc_database, combat_history, now, pc, opponent, player_stats,
                   player_health, opponent_health, round_num, nrounds, first,
                   result>>

\* the caller of the combat action: a new player fights battle after battle,
\* a player prepared by earlier play fights once
FindOpponentProgress ==
    /\ probe.kind = "progress"
    /\ probe.prepared => combat_history = <<>>
    /\ FindOpponent

\* the ways the loop of execute_battle, lines 92-102, can end: one side at 0
\* after some round, or both standing after the last round of the cap
LoopExits(ph, oh) ==
    {[player_health |-> ph, opponent_health |-> 0, rounds |-> 1],
     [player_health |-> 0, opponent_health |-> oh, rounds |-> 1],
     [player_health |-> ph, opponent_health |-> 0, rounds |-> RoundCap],
     [player_health |-> 0, opponent_health |-> oh, rounds |-> RoundCap],
     [player_health |-> 1, opponent_health |-> 1, rounds |-> RoundCap]}

\* the whole loop of execute_battle as one step
PlayRounds ==
    /\ probe.kind = "progress"
    /\ pc = "loop"
    /\ LoopCondition
    /\ \E exit \in LoopExits(player_health, opponent_health) :
         /\ player_health' = exit.player_health
         /\ opponent_health' = exit.opponent_health
         /\ nrounds' = nrounds + exit.rounds
         /\ round_num' = round_num + exit.rounds
    /\ UNCHANGED <<player, npc_database, combat_history, now, pc, opponent,
                   player_stats, first, result, probe>>

NextProgress ==
    \/ EarlierPlay
    \/ FindOpponentProgress
    \/ NoOpponentFound
    \/ ExecuteBattleStart
    \/ PlayRounds
    \/ FinishBattle

SpecProgress == InitProgress /\ [][NextProgress]_vars

\* ------------------------------------- the combat action and its cooldown
NoMessage == [text |-> "", seconds |-> 0]

NoEngine ==
    [kind |-> "engine", success |-> FALSE, message |-> NoMessage,
     started |-> NoTime, reset |-> FALSE, waited |-> FALSE]

InitEngine ==
    /\ InitSystem
    /\ player = NewPlayer
    /\ probe = NoEngine

\* the times a player lets pass before asking for a battle: half a second,
\* the cooldown less half a second, the whole cooldown (in ticks, half a
\* second being one tick when TicksPerSecond = 2)
Waits ==
    {1, combat_cooldown * TicksPerSecond - 1, combat_cooldown * TicksPerSecond}

\* time passes between two calls of the engine
Pass ==
    /\ EngineWatched
    /\ pc = "idle"
    /\ ~probe.waited
    /\ \E ticks \in Waits :
         /\ now + ticks <= MaxWait * TicksPerSecond
         /\ now' = now + ticks
    /\ probe' = [probe EXCEPT !.waited = TRUE]
    /\ UNCHANGED <<player, npc_database, combat_history, pc, opponent,
                   player_stats, player_health, opponent_health, round_num,
                   nrounds, first, result>>

\* _daily_player_reset, lines 86-97
daily_player_reset(p) ==
    LET healed == [p EXCEPT !.health = p.max_health]
        daily_bonus == 50 + (p.level * 5)
    IN  [add_credits(healed, daily_bonus) EXCEPT !.last_combat = NoTime,
                                                 !.last_search = NoTime]

\* process_daily_reset reaching the player, once between two battles
DailyReset ==
    /\ EngineWatched
    /\ pc = "idle"
    /\ ~probe.reset
    /\ player' = daily_player_reset(player)
    /\ probe' = [probe EXCEPT !.reset = TRUE]
    /\ UNCHANGED <<npc_database, combat_history, now, pc, opponent, player_stats,
                   player_health, opponent_health, round_num, nrounds, first,
                   result>>

\* a refused combat action that starts the cooldown again
CombatRefusedMarksCooldown ==
    /\ EngineWatched
    /\ pc = "idle"
    /\ ~can_combat(player, now)
    /\ player' = start_combat(player, now)
    /\ probe' = [probe EXCEPT
                   !.success = FALSE,
                   !.message = [text |-> "wait",
                                seconds |-> get_combat_cooldown(player, now)]]
    /\ UNCHANGED <<npc_database, combat_history, now, pc, opponent,
                   player_stats, player_health, opponent_health, round_num,
                   nrounds, first, result>>

\* process_player_action("combat") while can_combat() is false, lines 179-190
CombatRefused ==
    /\ EngineWatched
    /\ pc = "idle"
    /\ ~can_combat(player, now)
    /\ probe' = [probe EXCEPT
                   !.success = FALSE,
                   !.message = [text |-> "wait",
                                seconds |-> get_combat_cooldown(player, now)]]
    /\ UNCHANGED <<player, npc_database, combat_history, now, pc, opponent,
                   player_stats, player_health, opponent_health, round_num,
                   nrounds, first, result>>

\* the combat action going on to the battle without asking can_combat()
CombatUnchecked ==
    /\ EngineWatched
    /\ FindOpponent

\* process_player_action("combat") while can_combat() is true, lines 188-193;
\* a player of these levels always finds an opponent
CombatAllowed ==
    /\ EngineWatched
    /\ can_combat(player, now)
    /\ FindOpponent

NextEngine ==
    \/ Pass
    \/ DailyReset
    \/ CombatRefused
    \/ CombatAllowed
    \/ ExecuteBattleStart
    \/ RoundInitiative
    \/ RoundFirstStrike
    \/ RoundSecondStrike
    \/ FinishBattle

SpecEngine == InitEngine /\ [][NextEngine]_vars

\* ------------------------------------------ battles of two players at once
\* Two callers share one CombatSystem. The variables player, pc, opponent,
\* player_stats, player_health, opponent_health, round_num, nrounds, first and
\* result are those of the caller that is running; probe.other keeps those of
\* the caller that is waiting. npc_database, combat_history and the clock
\* belong to the shared system.
Context(p, at, opp, stats, ph, oh, rn, n, f, res) ==
    [player |-> p, pc |-> at, opponent |-> opp, player_stats |-> stats,
     player_health |-> ph, opponent_health |-> oh, round_num |-> rn,
     nrounds |-> n, first |-> f, result |-> res]

\* the player each caller brings, by user_id
ThreadPlayer(id) ==
    IF id = 1 THEN PlayedPlayer(<<HronoBlaster>>, 90, 5)
    ELSE [PlayedPlayer(<<>>, 0, 5) EXCEPT !.user_id = 2]

InitThreads ==
    /\ InitSystem
    /\ player = ThreadPlayer(1)
    /\ probe = [kind |-> "threads", running |-> 1,
                other |-> Context(ThreadPlayer(2), "idle", 0, NoStats, 0, 0, 0,
                                  0, "none", NoResult)]

\* the scheduler lets the other caller run
Switch ==
    /\ probe.kind = "threads"
    /\ player' = probe.other.player
    /\ pc' = probe.other.pc
    /\ opponent' = probe.other.opponent
    /\ player_stats' = probe.other.player_stats
    /\ player_health' = probe.other.player_health
    /\ opponent_health' = probe.other.opponent_health
    /\ round_num' = probe.other.round_num
    /\ nrounds' = probe.other.nrounds
    /\ first' = probe.other.first
    /\ result' = probe.other.result
    /\ probe' = [probe EXCEPT
                   !.running = 3 - @,
                   !.other = Context(player, pc, opponent, player_stats,
                                     player_health, opponent_health, round_num,
                                     nrounds, first, result)]
    /\ UNCHANGED <<npc_database, combat_history, now>>

\* each caller asks for one battle
FindOpponentFirst ==
    /\ result.result = "none"
    /\ FindOpponent

NextThreads ==
    \/ Switch
    \/ FindOpponentFirst
    \/ ExecuteBattleStart
    \/ RoundInitiative
    \/ RoundFirstStrike
    \/ RoundSecondStrike
    \/ FinishBattle

SpecThreads == InitThreads /\ [][NextThreads]_vars

\* ---------------------------------------------- the cooldowns on their own
\* players who never fought or searched, or did so when the clock showed 0
TimerPlayers ==
    {NewPlayer, start_combat(NewPlayer, 0), start_search(NewPlayer, 0),
     start_search(start_combat(NewPlayer, 0), 0)}

InitTimers ==
    /\ InitSystem
    /\ player \in TimerPlayers
    /\ probe = [kind |-> "timers", stage |-> "fresh", can_combat |-> FALSE,
                can_search |-> FALSE, combat_cooldown |-> 0,
                search_cooldown |-> 0]

\* some time passes before the player asks again
Wait ==
    /\ probe.kind = "timers"
    /\ probe.stage = "fresh"
    /\ \E ticks \in 0..(MaxWait * TicksPerSecond) : now' = now + ticks
    /\ probe' = [probe EXCEPT !.stage = "waited"]
    /\ UNCHANGED <<player, npc_database, combat_history, pc, opponent,
                   player_stats, player_health, opponent_health, round_num,
                   nrounds, first, result>>

\* the four cooldown methods called at the time the clock shows
ProbeTimers ==
    /\ probe.kind = "timers"
    /\ probe.stage = "waited"
    /\ probe' = [probe EXCEPT
                   !.stage = "called",
                   !.can_combat = can_combat(player, now),
                   !.can_search = can_search(player, now),
                   !.combat_cooldown = get_combat_cooldown(player, now),
                   !.search_cooldown = get_search_cooldown(player, now)]
    /\ UNCHANGED <<player, npc_database, combat_history, now, pc, opponent,
                   player_stats, player_health, opponent_health, round_num,
                   nrounds, first, result>>

NextTimers ==
    \/ Wait
    \/ ProbeTimers

SpecTimers == InitTimers /\ [][NextTimers]_vars

\* ------------------------------------------------ items, levels and saves
ItemsFound == {HronoBlaster, HronoShield, KvantProtsessor}

InitItems ==
    /\ InitSystem
    /\ player = NewPlayer
    /\ probe = [kind |-> "items", reloads |-> 0]

\* player.add_item(item), as the search and the shop call it
AddItem ==
    /\ probe.kind = "items"
    /\ probe.reloads = 0
    /\ Len(player.inventory) < MaxInventory
    /\ \E item \in ItemsFound : player' = add_item(player, item)
    /\ UNCHANGED <<npc_database, combat_history, now, pc, opponent, player_stats,
                   player_health, opponent_health, round_num, nrounds, first,
                   result, probe>>

\* player.remove_item(item) for an item the player holds
RemoveItem ==
    /\ probe.kind = "items"
    /\ probe.reloads = 0
    /\ \E i \in 1..Len(player.inventory) :
         player' = remove_item(player, player.inventory[i])
    /\ UNCHANGED <<npc_database, combat_history, now, pc, opponent, player_stats,
                   player_health, opponent_health, round_num, nrounds, first,
                   result, probe>>

\* the player is written to the store and read back:
\* Player.from_dict(player.to_dict())
SaveReload ==
    /\ probe.kind = "items"
    /\ probe.reloads < MaxReloads
    /\ player' = from_dict(to_dict(player))
    /\ probe' = [probe EXCEPT !.reloads = @ + 1]
    /\ UNCHANGED <<npc_database, combat_history, now, pc, opponent, player_stats,
                   player_health, opponent_health, round_num, nrounds, first,
                   result>>

NextItems ==
    \/ GainLevel
    \/ AddItem
    \/ RemoveItem
    \/ SaveReload

SpecItems == InitItems /\ [][NextItems]_vars

\* ------------------------------------------------------------------ claims
\* execute_battle has returned and its locals still hold the final healths
Returned == pc = "idle" /\ result.result # "none"

\* C1: every execute_battle plays at most 20 rounds. The round counter never
\* passes the cap by more than the final increment, the log never holds more than
\* 20 rounds, and both the returned 'rounds' and the stored record's 'rounds'
\* are at most 20.
C1_RoundsBounded ==
    /\ nrounds <= RoundCap
    /\ round_num <= RoundCap + 1
    /\ pc \in {"loop", "first", "second"} => nrounds = round_num - 1
    /\ pc \in {"first", "second"} => round_num <= RoundCap
    /\ result.rounds <= RoundCap
    /\ \A i \in DOMAIN combat_history : combat_history[i].rounds <= RoundCap

\* a battle that used all 20 rounds has returned and is on record
C1_Witness ==
    /\ Returned
    /\ result.rounds = RoundCap
    /\ combat_history[Len(combat_history)].rounds = RoundCap

\* C2: the returned tag is one of victory, defeat, draw and matches the final
\* simulated healths: victory exactly when the opponent is at 0 and the player
\* above 0, defeat exactly when the player is at 0 and the opponent above 0,
\* draw only after all 20 rounds with both healths above 0.
C2_OutcomeMatchesHealths ==
    Returned =>
        /\ result.result \in {"victory", "defeat", "draw"}
        /\ result.result = "victory" <=> (opponent_health = 0 /\ player_health > 0)
        /\ result.result = "defeat" <=> (player_health = 0 /\ opponent_health > 0)
        /\ result.result = "draw" =>
              (result.rounds = RoundCap /\ player_health > 0 /\ opponent_health > 0)

\* a battle has ended in a draw
C2_Witness ==
    /\ Returned
    /\ result.result = "draw"
    /\ player_health > 0
    /\ opponent_health > 0

\* C3: once a battle has been fought the stored health is between 1 and
\* max_health, whatever the opponents, the dice and the level-ups were.
C3_HealthInRange ==
    Len(combat_history) >= 1 =>
        (1 <= player.health /\ player.health <= player.max_health)

\* a player who levelled up in one battle and was beaten to 0 in the next
C3_Witness ==
    /\ Returned
    /\ Len(combat_history) = 2
    /\ player.level = 2
    /\ result.result = "defeat"
    /\ player_health = 0
    /\ player.health = 1

\* C4: every strike deals at least 1 damage, for every attack and defense
\* >= 0, critical chance, critical roll in 1..100 and jitter in -2..2.
C4_DamageAtLeastOne ==
    (probe.kind = "damage" /\ probe.called) => probe.damage >= 1

\* a strike whose jittered damage would be below 1 and is clamped to 1
C4_Witness ==
    /\ probe.kind = "damage"
    /\ probe.called
    /\ probe.attack = 0
    /\ probe.jitter = JitterLow
    /\ probe.damage = 1

\* the damage the specification states: max(1, B + j), b = max(1, attack -
\* floor(defense / 2)), B = floor(b * 3 / 2) on a critical roll, else b
StatedDamage(attack, defense, c, r, j) ==
    LET b == IF attack - (defense \div 2) >= 1 THEN attack - (defense \div 2) ELSE 1
        B == IF r <= c THEN (b * 3) \div 2 ELSE b
    IN  IF B + j >= 1 THEN B + j ELSE 1

\* C5: a strike deals exactly max(1, B + j) with b = max(1, attack -
\* floor(defense / 2)) and B = floor(b * 3 / 2) when roll <= chance, else b; the
\* player's strike takes the player's attack and critical chance against the
\* opponent's defense, the opponent's strike the opponent's attack and critical
\* chance against the player's defense.
C5_DamageFormula ==
    (probe.kind = "damage" /\ probe.called) =>
        probe.damage = StatedDamage(probe.attack, probe.defense,
                                    probe.critical_chance, probe.roll, probe.jitter)

\* a critical strike of the opponent whose base 3 is floored to 4
C5_Witness ==
    /\ probe.kind = "damage"
    /\ probe.called
    /\ probe.who = "opponent"
    /\ probe.roll <= probe.critical_chance
    /\ probe.attack = 3
    /\ probe.defense = 0
    /\ probe.jitter = 0
    /\ probe.damage = 4

\* the roster entries within 3 levels of the player
WithinThree(i) == Abs(npc_database[i].level - player.level) <= 3

\* C6: the opponent find_opponent returns is a roster entry within 3 levels of
\* the player; it returns none exactly when the roster holds no such entry; and
\* every such entry can be the one returned.
C6_OpponentEligible ==
    /\ pc = "selected" =>
          /\ opponent # 0 => (opponent \in DOMAIN npc_database /\ WithinThree(opponent))
          /\ opponent = 0 <=> ~(\E i \in DOMAIN npc_database : WithinThree(i))
    /\ pc = "idle" =>
          \A i \in DOMAIN npc_database :
              WithinThree(i) => ENABLED (FindOpponent /\ opponent' = i)

\* an opponent exactly 3 levels away from the player has been returned
C6_Witness ==
    /\ pc = "selected"
    /\ opponent # 0
    /\ Abs(npc_database[opponent].level - player.level) = 3

\* the stronger-opponent bonus at `rate` per level
StatedBonus(n, p, rate) == IF n > p THEN rate * (n - p) ELSE 0

\* C7: the experience reward is max(1, floor(n*10*1.5) + 5*(n-p) if n > p) on
\* victory and max(1, floor(n*10*0.3)) otherwise, and is always >= 1.
C7_ExperienceReward ==
    probe.kind = "reward" =>
        \A k \in 1..probe.calls :
            LET n == probe.npc.level
                p == player.level
                stated == IF probe.victory
                          THEN (n * 10 * 3) \div 2 + StatedBonus(n, p, 5)
                          ELSE (n * 10 * 3) \div 10
            IN  /\ probe.experience[k] = (IF stated >= 1 THEN stated ELSE 1)
                /\ probe.experience[k] >= 1

\* a victory over an opponent 10 levels above the player
C7_Witness ==
    /\ probe.kind = "reward"
    /\ probe.calls >= 1
    /\ probe.victory
    /\ probe.npc.level = player.level + 10
    /\ probe.experience[1] = 15 * probe.npc.level + 50

\* C8: the currency reward is max(0, floor(n*5*1.5) + 3*(n-p) if n > p) on
\* victory and max(0, floor(n*5*0.2)) otherwise, and is always >= 0.
C8_CreditsReward ==
    probe.kind = "reward" =>
        \A k \in 1..probe.calls :
            LET n == probe.npc.level
                p == player.level
                stated == IF probe.victory
                          THEN (n * 5 * 3) \div 2 + StatedBonus(n, p, 3)
                          ELSE (n * 5 * 2) \div 10
            IN  /\ probe.credits[k] = (IF stated >= 0 THEN stated ELSE 0)
                /\ probe.credits[k] >= 0

\* a victory over a level-3 opponent by a level-1 player: floor(22.5) + 6
C8_Witness ==
    /\ probe.kind = "reward"
    /\ probe.calls >= 1
    /\ probe.victory
    /\ probe.npc.level = 3
    /\ player.level = 1
    /\ probe.credits[1] = 28

\* C9: a victory over an opponent d > 0 levels above the player pays exactly
\* 5*d experience and 3*d currency more than the same victory pays a player of
\* the opponent's level (50 and 30 for d = 10); a victory over an opponent that
\* is not above the player pays no bonus.
C9_StrongerOpponentBonus ==
    (probe.kind = "reward" /\ probe.calls >= 1 /\ probe.victory) =>
        LET n == probe.npc.level
            d == n - player.level
            peer == [player EXCEPT !.level = n]
            peer_experience == calculate_experience_reward(peer, probe.npc, TRUE)
            peer_credits == calculate_credits_reward(peer, probe.npc, TRUE)
        IN  /\ d > 0 => /\ probe.experience[1] = peer_experience + 5 * d
                        /\ probe.credits[1] = peer_credits + 3 * d
            /\ d = 10 => /\ probe.experience[1] = peer_experience + 50
                         /\ probe.credits[1] = peer_credits + 30
            /\ d <= 0 => /\ probe.experience[1] = peer_experience
                         /\ probe.credits[1] = peer_credits

\* a victory over an opponent exactly 10 levels above the player
C9_Witness ==
    /\ probe.kind = "reward"
    /\ probe.calls >= 1
    /\ probe.victory
    /\ probe.npc.level - player.level = 10
    /\ probe.credits[1] = (15 * probe.npc.level) \div 2 + 30

\* C10: the rewards depend on nothing but the opponent's level, the player's
\* level and the victory flag: a second call after currency, items, health, win
\* counter or battle history changed returns the same values, and a call leaves
\* the player as it was.
C10_RewardsDeterministic ==
    probe.kind = "reward" =>
        /\ probe.calls = 2 => /\ probe.experience[1] = probe.experience[2]
                              /\ probe.credits[1] = probe.credits[2]
        /\ (probe.calls = 2 \/ (probe.calls = 1 /\ ~probe.perturbed)) =>
               player = probe.player_before

\* both calls were made, with a win counted and recorded between them
C10_Witness ==
    /\ probe.kind = "reward"
    /\ probe.calls = 2
    /\ probe.perturbed
    /\ player.combat_wins = 1
    /\ Len(combat_history) = 1

\* add_experience(probe.amount) has returned on the player probe.before
Gained == probe.kind = "level" /\ probe.stage = "called"

\* the experience the call reached before any level-up
Reached == probe.before.experience + probe.amount

\* C11: when add_experience brings the experience to at least the threshold T,
\* the level-up raises the level by exactly 1, takes T off the experience, sets
\* the threshold to floor(T * 1.5), raises max_health by 20 and restores health
\* to it, adds 3 attack, 2 defense, 1 speed, 1 critical_damage and 100 credits;
\* with T = 100, experience 0 and a gain of 100 the experience ends at 0.
C11_LevelUpEffects ==
    (Gained /\ Reached >= probe.before.experience_to_next_level) =>
        LET b == probe.before
            T == b.experience_to_next_level
        IN  /\ player.level = b.level + 1
            /\ player.experience = Reached - T
            /\ 2 * player.experience_to_next_level <= 3 * T
            /\ 3 * T < 2 * (player.experience_to_next_level + 1)
            /\ player.max_health = b.max_health + 20
            /\ player.health = player.max_health
            /\ player.attack = b.attack + 3
            /\ player.defense = b.defense + 2
            /\ player.speed = b.speed + 1
            /\ player.critical_damage = b.critical_damage + 1
            /\ player.credits = b.credits + 100
            /\ (T = 100 /\ b.experience = 0 /\ probe.amount = 100)
                  => player.experience = 0

C11_Witness ==
    /\ Gained
    /\ probe.before.experience_to_next_level = 225
    /\ probe.before.experience = 7
    /\ probe.amount = 230
    /\ player.level = 4
    /\ player.experience = 12
    /\ player.experience_to_next_level = 337
    /\ player.health = 160

\* C12: one call add_experience(amount) raises the level by at most 1 for every
\* amount: when the new experience is at least the threshold exactly one
\* level-up is performed and the call returns True, otherwise none and it
\* returns False; what is left of the experience is kept as it is, without a
\* second comparison against the new threshold.
C12_AtMostOneLevel ==
    Gained =>
        LET b == probe.before
            T == b.experience_to_next_level
        IN  /\ player.level <= b.level + 1
            /\ IF Reached >= T
               THEN /\ probe.leveled_up
                    /\ player.level = b.level + 1
                    /\ player.experience = Reached - T
               ELSE /\ ~probe.leveled_up
                    /\ player = [b EXCEPT !.experience = Reached]

C12_Witness ==
    /\ Gained
    /\ probe.before = NewPlayer
    /\ probe.amount = 300
    /\ probe.leveled_up
    /\ player.level = 2
    /\ player.experience = 200
    /\ player.experience_to_next_level = 150

\* C13: leveling is re-checked until the threshold is no longer met: after
\* add_experience(amount) returns, for every amount >= 0, the experience is
\* below experience_to_next_level.
C13_ExperienceBelowThreshold ==
    (Gained /\ probe.amount >= 0) =>
        player.experience < player.experience_to_next_level

InBattle == pc \in {"loop", "first", "second"}

\* C14: execute_battle sets last_combat to the time of the call before the
\* first round is simulated, whatever the outcome; nothing changes it again
\* until the call returns, so can_combat() is false right after the battle.
C14_CooldownMarkedAtStart ==
    [][/\ (pc = "selected" /\ pc' = "loop")
            => (player'.last_combat = now /\ nrounds' = 0 /\ round_num' = 1)
       /\ InBattle => player'.last_combat = player.last_combat
       /\ (InBattle /\ pc' = "idle")
            => (result'.result \in {"victory", "defeat", "draw"}
                /\ ~can_combat(player', now'))]_vars

C14_Witness ==
    /\ Returned
    /\ result.result = "draw"
    /\ player.last_combat = MaxTime
    /\ combat_history[1].timestamp = MaxTime + 1
    /\ ~can_combat(player, now)

\* the step in which execute_battle leaves the loop and returns
BattleReturns == InBattle /\ pc' = "idle"

\* C15: one execute_battle adds 1 to combat_wins on a victory and leaves
\* combat_losses alone, adds 1 to combat_losses on a defeat and leaves
\* combat_wins alone, and changes neither on a draw. In all three outcomes the
\* granted experience goes through add_experience (a level-up with its 100
\* credits when the threshold is reached) and the granted currency through
\* add_credits.
C15_CountersAndRewards ==
    [][BattleReturns =>
        LET tag == result'.result
            reached == player.experience + result'.experience_gained
            T == player.experience_to_next_level
        IN  /\ player'.combat_wins =
                   player.combat_wins + (IF tag = "victory" THEN 1 ELSE 0)
            /\ player'.combat_losses =
                   player.combat_losses + (IF tag = "defeat" THEN 1 ELSE 0)
            /\ IF reached >= T
               THEN /\ player'.level = player.level + 1
                    /\ player'.experience = reached - T
                    /\ player'.credits =
                           player.credits + 100 + result'.credits_gained
               ELSE /\ player'.level = player.level
                    /\ player'.experience = reached
                    /\ player'.credits = player.credits + result'.credits_gained]_vars

C15_Witness ==
    /\ Returned
    /\ result.result = "draw"
    /\ player.combat_wins = 0
    /\ player.combat_losses = 0
    /\ result.experience_gained > 0
    /\ player.experience = result.experience_gained
    /\ player.credits = 1000 + result.credits_gained

\* C16: for the same opponent and player level a draw grants exactly the
\* experience and currency a defeat grants, and both are strictly smaller
\* than what a victory grants.
C16_DrawRewardedAsDefeat ==
    [][BattleReturns =>
        LET npc == npc_database[opponent]
            defeat_experience == calculate_experience_reward(player, npc, FALSE)
            defeat_credits == calculate_credits_reward(player, npc, FALSE)
            victory_experience == calculate_experience_reward(player, npc, TRUE)
            victory_credits == calculate_credits_reward(player, npc, TRUE)
        IN  /\ result'.result \in {"draw", "defeat"} =>
                  /\ result'.experience_gained = defeat_experience
                  /\ result'.credits_gained = defeat_credits
                  /\ player'.experience = player.experience + defeat_experience
                  /\ player'.credits = player.credits + defeat_credits
            /\ result'.result = "victory" =>
                  /\ result'.experience_gained = victory_experience
                  /\ result'.credits_gained = victory_credits
            /\ \A i \in DOMAIN npc_database :
                  /\ calculate_experience_reward(player, npc_database[i], FALSE)
                       < calculate_experience_reward(player, npc_database[i], TRUE)
                  /\ calculate_credits_reward(player, npc_database[i], FALSE)
                       < calculate_credits_reward(player, npc_database[i], TRUE)]_vars

\* a draw against the level-4 opponent: 12 experience and 4 credits, where a
\* victory grants 75 and 39
C16_Witness ==
    /\ Returned
    /\ result.result = "draw"
    /\ combat_history[1].opponent_name = npc_database[4].name
    /\ result.experience_gained = 12
    /\ result.credits_gained = 4
    /\ calculate_experience_reward(NewPlayer, npc_database[4], TRUE) = 75
    /\ calculate_credits_reward(NewPlayer, npc_database[4], TRUE) = 39

\* C17: the battle history is append-only. The step in which execute_battle
\* returns appends exactly one record after the records already there, with
\* the outcome, round count, experience and currency of the returned result,
\* and a timestamp not before the last record's; no other step changes the
\* history, so n battles leave n records in battle order.
C17_HistoryAppendOnly ==
    [][IF BattleReturns
       THEN /\ Len(combat_history') = Len(combat_history) + 1
            /\ SubSeq(combat_history', 1, Len(combat_history)) = combat_history
            /\ LET record == combat_history'[Len(combat_history')]
               IN  /\ record.result = result'.result
                   /\ record.rounds = result'.rounds
                   /\ record.rounds = nrounds
                   /\ record.experience_gained = result'.experience_gained
                   /\ record.credits_gained = result'.credits_gained
                   /\ record.player_id = player'.user_id
                   /\ record.opponent_name = npc_database[opponent].name
                   /\ record.timestamp = now'
                   /\ combat_history # <<>> =>
                         combat_history[Len(combat_history)].timestamp
                            <= record.timestamp
       ELSE combat_history' = combat_history]_vars

\* a victory in one round followed by a defeat in more rounds
C17_Witness ==
    /\ Returned
    /\ Len(combat_history) = 2
    /\ combat_history[1].result = "victory"
    /\ combat_history[1].rounds = 1
    /\ combat_history[2].result = "defeat"
    /\ combat_history[2].rounds = result.rounds
    /\ combat_history[2].rounds > 1
    /\ combat_history[1].timestamp < combat_history[2].timestamp

\* C18: no battle and no opponent selection changes the roster: every
\* template keeps the name, level, health, max_health, attack, defense and
\* speed it was created with, and every battle starts from the full health
\* of its template.
C18_RosterUnchanged ==
    /\ npc_database = create_npc_database
    /\ \A i \in DOMAIN npc_database :
          npc_database[i].health = npc_database[i].max_health
    /\ (pc = "loop" /\ round_num = 1) =>
          opponent_health = create_npc_database[opponent].max_health

\* a second battle against an opponent beaten in the first one
C18_Witness ==
    /\ pc = "loop"
    /\ round_num = 1
    /\ Len(combat_history) = 1
    /\ combat_history[1].result = "victory"
    /\ combat_history[1].opponent_name = npc_database[opponent].name
    /\ opponent_health = npc_database[opponent].max_health

\* a round of the observed battle has drawn its initiatives
RoundOpen == Observed /\ probe.round_result.round >= 1 /\ opponent # 0

\* C19: in a round the player attacks first exactly when player speed +
\* jitter >= opponent speed + jitter, both jitters in -2..2: on equal
\* initiatives the player attacks first, otherwise the side with the higher
\* initiative does, and the other side attacks second if at all.
C19_InitiativeOrder ==
    RoundOpen =>
        LET events == probe.round_result.events
            player_first == probe.player_initiative >= probe.opponent_initiative
        IN  /\ probe.player_initiative - player_stats.speed \in -2..2
            /\ probe.opponent_initiative - npc_database[opponent].speed \in -2..2
            /\ pc \in {"first", "second"} => (first = "player" <=> player_first)
            /\ Len(events) <= 2
            /\ Len(events) >= 1 => (events[1].by = "player" <=> player_first)
            /\ Len(events) = 2 => (events[2].by = "opponent" <=> player_first)

\* equal initiatives, the player has struck first and the opponent second
C19_Witness ==
    /\ RoundOpen
    /\ probe.player_initiative = probe.opponent_initiative
    /\ Len(probe.round_result.events) = 2
    /\ probe.round_result.events[1].by = "player"
    /\ probe.round_result.events[2].by = "opponent"

\* the first strike of the observed round took all the health the defender
\* had when the round was called
FirstStrikeFells ==
    /\ Observed
    /\ Len(probe.round_result.events) >= 1
    /\ LET strike == probe.round_result.events[1]
       IN  strike.damage >= (IF strike.by = "player"
                             THEN probe.before_opponent_health
                             ELSE probe.before_player_health)

\* C20: when the first attack of a round brings the defender to 0 the round
\* ends at once: the second side does not attack, the damage reported for
\* the side that never acted is 0, the first attacker's health is what it
\* was when the round began, and the round holds a single event.
C20_FirstStrikeEndsRound ==
    FirstStrikeFells =>
        LET rr == probe.round_result
            strike == rr.events[1]
        IN  /\ pc # "second"
            /\ Len(rr.events) = 1
            /\ IF strike.by = "player"
               THEN /\ rr.player_damage = 0
                    /\ rr.opponent_damage = strike.damage
                    /\ rr.opponent_health = 0
                    /\ opponent_health = 0
                    /\ rr.player_health = probe.before_player_health
                    /\ player_health = probe.before_player_health
               ELSE /\ rr.opponent_damage = 0
                    /\ rr.player_damage = strike.damage
                    /\ rr.player_health = 0
                    /\ player_health = 0
                    /\ rr.opponent_health = probe.before_opponent_health
                    /\ opponent_health = probe.before_opponent_health

\* the opponent struck first and felled a player who had 5 health
C20_Witness ==
    /\ FirstStrikeFells
    /\ probe.round_result.events[1].by = "opponent"
    /\ probe.before_player_health = 5
    /\ probe.round_result.player_health = 0
    /\ probe.round_result.opponent_damage = 0
    /\ Len(probe.round_result.events) = 1
    /\ pc = "loop"

\* the stats of a player of the given level who holds nothing: those of
\* Player.__init__ and the growth of every level_up since
BaseStats(level) ==
    [attack |-> NewPlayer.attack + 3 * (level - 1),
     defense |-> NewPlayer.defense + 2 * (level - 1),
     speed |-> NewPlayer.speed + (level - 1),
     critical_damage |-> NewPlayer.critical_damage + (level - 1)]

\* C21: after any sequence of add_item, remove_item and level-ups the
\* aggregated profile of get_total_stats is the base stats plus the bonuses of
\* the items held, each item counted once: weapons to attack, armor to
\* defense, implants to speed and critical damage.
C21_ProfileCountsItemsOnce ==
    (probe.kind = "items" /\ probe.reloads = 0) =>
        LET base == BaseStats(player.level)
            inv == player.inventory
        IN  get_total_stats(player) =
                [attack |-> base.attack + SumBonus(inv, "weapon", "attack_bonus"),
                 defense |-> base.defense + SumBonus(inv, "armor", "defense_bonus"),
                 speed |-> base.speed + SumBonus(inv, "implant", "speed_bonus"),
                 critical_damage |-> base.critical_damage
                                     + SumBonus(inv, "implant", "critical_bonus")]

\* C22: saving and reloading a player is lossless: Player.from_dict(to_dict(p))
\* has every field of p, the inventory included, however often it is repeated.
C22_SaveReloadLossless ==
    [][(probe.kind = "items" /\ probe'.reloads = probe.reloads + 1)
          => player' = player]_vars

\* the whole seconds left of `duration` seconds, `since` being the timestamp
\* the cooldown started at: max(0, floor(duration - elapsed)), 0 if never used
StatedCooldown(duration, since) ==
    IF since = NoTime THEN 0
    ELSE LET left == (duration * TicksPerSecond - (now - since)) \div TicksPerSecond
         IN  IF left >= 0 THEN left ELSE 0

\* C23: can_combat() is true exactly when the player never fought or at
\* least 300 seconds have passed since last_combat, can_search() likewise
\* with 600 and last_search; get_combat_cooldown() and get_search_cooldown()
\* return max(0, floor(duration - elapsed)), 0 when the action was never
\* used, and never a negative value.
C23_Cooldowns ==
    (probe.kind = "timers" /\ probe.stage = "called") =>
        /\ probe.can_combat <=>
              (player.last_combat = NoTime
               \/ now - player.last_combat >= 300 * TicksPerSecond)
        /\ probe.can_search <=>
              (player.last_search = NoTime
               \/ now - player.last_search >= 600 * TicksPerSecond)
        /\ probe.combat_cooldown = StatedCooldown(300, player.last_combat)
        /\ probe.search_cooldown = StatedCooldown(600, player.last_search)
        /\ probe.combat_cooldown >= 0
        /\ probe.search_cooldown >= 0

\* exactly 300 seconds after a battle and a search begun together: combat is
\* allowed again, the search has 300 seconds left
C23_Witness ==
    /\ probe.kind = "timers"
    /\ probe.stage = "called"
    /\ player.last_combat = 0
    /\ player.last_search = 0
    /\ now = 300 * TicksPerSecond
    /\ probe.can_combat
    /\ ~probe.can_search
    /\ probe.combat_cooldown = 0
    /\ probe.search_cooldown = 300

\* C24: the result of execute_battle reports the damage each side took:
\* player_damage is the health the player lost in the battle (the health the
\* battle started from minus the final simulated health) and opponent_damage
\* the health the opponent lost, for every starting health of the player and
\* whether or not the battle triggered a level-up.
C24_ReportedDamage ==
    [][BattleReturns =>
        /\ result'.player_damage = player.health - player_health
        /\ result'.opponent_damage =
               npc_database[opponent].max_health - opponent_health]_vars

\* C25: the log of rounds agrees with the running totals: the k-th round has
\* number k, a round starts from the healths the previous round recorded
\* (the player's stored health and the template's health for round 1) and
\* only while both are above 0, the running totals after a round are the
\* healths it recorded, and the outcome is decided on those of the last round.
C25_RoundLogConsistent ==
    [][/\ (Observed /\ pc = "loop" /\ pc' = "first") =>
            LET rr == probe'.round_result
            IN  /\ rr.round = nrounds + 1
                /\ rr.round = round_num
                /\ rr.player_health > 0 /\ rr.opponent_health > 0
                /\ rr.player_health =
                      (IF nrounds = 0 THEN player.health
                       ELSE probe.round_result.player_health)
                /\ rr.opponent_health =
                      (IF nrounds = 0 THEN npc_database[opponent].health
                       ELSE probe.round_result.opponent_health)
       /\ (Observed /\ pc \in {"first", "second"} /\ pc' = "loop") =>
            LET rr == probe'.round_result
            IN  /\ nrounds' = nrounds + 1
                /\ round_num' = round_num + 1
                /\ rr.round = nrounds'
                /\ player_health' = rr.player_health
                /\ opponent_health' = rr.opponent_health
       /\ (Observed /\ BattleReturns /\ nrounds > 0) =>
            /\ result'.rounds = probe.round_result.round
            /\ result'.result = Outcome(probe.round_result.player_health,
                                        probe.round_result.opponent_health)]_vars

\* the third round has begun from the healths the second one recorded
C25_Witness ==
    /\ Observed
    /\ pc = "first"
    /\ nrounds = 2
    /\ probe.round_result.round = 3
    /\ probe.round_result.player_health = player_health
    /\ probe.round_result.player_health < player.health
    /\ probe.round_result.opponent_health < npc_database[opponent].health

\* C26: no eligible opponent is an expected result, not an error: for a
\* level with no roster entry within 3 levels find_opponent returns None, and
\* the combat action then returns an unsuccessful result with a message,
\* leaving the player (progression, health, counters, cooldown timestamp)
\* and the battle history unchanged.
C26_NoOpponentIsNoError ==
    [][/\ (pc = "idle" /\ pc' = "selected"
           /\ \A i \in DOMAIN npc_database :
                 Abs(npc_database[i].level - player.level) > 3)
            => opponent' = 0
       /\ (pc = "selected" /\ opponent = 0) =>
            /\ pc' = "idle"
            /\ ~probe'.success
            /\ probe'.message # ""
            /\ player' = player
            /\ combat_history' = combat_history
            /\ result' = result]_vars

\* a player of level 39 was told there is no opponent
C26_Witness ==
    /\ probe.kind = "action"
    /\ pc = "idle"
    /\ player.level = 39
    /\ ~probe.success
    /\ probe.message = "no opponent, try later"
    /\ player.last_combat = NoTime
    /\ combat_history = <<>>

\* the caller that is running, as a context
Running ==
    Context(player, pc, opponent, player_stats, player_health, opponent_health,
            round_num, nrounds, first, result)

\* the records the history holds for the player `id`
RecordsOf(id) ==
    {k \in 1..Len(combat_history) : combat_history[k].player_id = id}

\* the caller with context ctx and player `id` is where its own battle, run
\* alone, would have brought it
AsWhenAlone(ctx, id) ==
    LET mine == ThreadPlayer(id)
        marked == start_combat(mine, ctx.player.last_combat)
    IN  IF ctx.result.result = "none"
        THEN /\ RecordsOf(id) = {}
             /\ ctx.player = (IF ctx.pc \in {"idle", "selected"} THEN mine ELSE marked)
        ELSE /\ Cardinality(RecordsOf(id)) = 1
             /\ LET record == combat_history[CHOOSE k \in RecordsOf(id) : TRUE]
                    npc == create_npc_database[
                               CHOOSE i \in DOMAIN create_npc_database :
                                   create_npc_database[i].name = record.opponent_name]
                IN  /\ ctx.player = SettleOutcome(marked, npc, ctx.player_health,
                                                  ctx.opponent_health)
                    /\ record.result = ctx.result.result
                    /\ record.rounds = ctx.result.rounds
                    /\ record.experience_gained = ctx.result.experience_gained
                    /\ record.credits_gained = ctx.result.credits_gained

\* C27: battles of different players are independent: under every
\* interleaving each player is in the state its own battle produces when run
\* alone, a player whose battle has not begun is untouched, the roster is
\* unchanged, and the shared history holds exactly one record per finished
\* battle.
C27_PlayersIndependent ==
    probe.kind = "threads" =>
        /\ AsWhenAlone(Running, probe.running)
        /\ AsWhenAlone(probe.other, 3 - probe.running)
        /\ npc_database = create_npc_database
        /\ Len(combat_history) =
              Cardinality(RecordsOf(1)) + Cardinality(RecordsOf(2))

\* both battles began when the clock showed 0; the second player's battle
\* ended first and the first player's, a victory with a level-up, after it
C27_Witness ==
    /\ probe.kind = "threads"
    /\ probe.running = 1
    /\ Returned
    /\ Len(combat_history) = 2
    /\ combat_history[1].player_id = 2
    /\ combat_history[1].timestamp = 1
    /\ combat_history[2].player_id = 1
    /\ player.last_combat = 0
    /\ probe.other.player.last_combat = 0
    /\ result.result = "victory"
    /\ player.level = 2
    /\ probe.other.result.result = "defeat"
    /\ probe.other.player.combat_losses = 1
    /\ probe.other.player.combat_wins = 0

\* the battle of scenario A has returned: the new player against the
\* level-1 "Kiber-gangster" with every draw at its midpoint
ScenarioA ==
    /\ probe.kind = "scenario"
    /\ probe.player_before = NewPlayer
    /\ Returned
    /\ combat_history[1].opponent_name = create_npc_database[1].name

\* C28: scenario A, a level-1 player (health 100, attack 10, defense 5, speed
\* 8, crit 15) against the level-1 opponent (health 80, attack 12, defense 6,
\* speed 7) with jitter 0 and no critical hit, ends within 20 rounds with one
\* of the three outcomes and with experience >= 0 and currency >= 0 granted:
\* it is the defeat of the player in round 10, worth 3 experience and 1 credit.
C28_ScenarioA ==
    ScenarioA =>
        /\ result.rounds <= 20
        /\ result.result \in {"victory", "defeat", "draw"}
        /\ result.experience_gained >= 0
        /\ result.credits_gained >= 0
        /\ result.result = "defeat"
        /\ result.rounds = 10
        /\ player_health = 0
        /\ opponent_health = 10
        /\ result.experience_gained = 3
        /\ result.credits_gained = 1

C28_Witness ==
    /\ ScenarioA
    /\ probe.player_before.attack = 10
    /\ probe.player_before.health = 100
    /\ create_npc_database[1].health = 80
    /\ create_npc_database[1].attack = 12
    /\ round_num = 11
    /\ player.combat_losses = 1
    /\ player.experience = 3
    /\ player.credits = 1001

\* C29: from a new player on, after every battle against an opponent that
\* find_opponent returned, whatever its outcome, the player's experience is
\* at least 0 and below experience_to_next_level: no reward of a battle
\* leaves the experience at or above the next threshold after the single
\* level-up of add_experience.
C29_ExperienceBelowThreshold ==
    /\ 0 <= player.experience
    /\ player.experience < player.experience_to_next_level

\* a new player's second battle raised the level, and a player one point
\* short of a threshold won the battle against an opponent three levels up
C29_Witness ==
    /\ probe.kind = "progress"
    /\ Returned
    /\ result.result = "victory"
    /\ \/ /\ ~probe.prepared
          /\ Len(combat_history) = 2
          /\ player.level = 2
          /\ player.experience = combat_history[1].experience_gained
                                 + combat_history[2].experience_gained
                                 - NewPlayer.experience_to_next_level
       \/ /\ probe.prepared
          /\ player.level = 6
          /\ combat_history[1].opponent_name = create_npc_database[8].name
          /\ player.experience = result.experience_gained - 1

\* C30: when execute_battle has returned, the player's stored health is
\* max(1, final simulated health) in every outcome, also when the battle's
\* experience raised the level: the write-back comes after the level-up's
\* full restore and overwrites it.
C30_HealthWrittenBack ==
    Returned => player.health = Max(1, player_health)

C30_Witness ==
    /\ Returned
    /\ result.result = "victory"
    /\ player.level = 2
    /\ Len(combat_history) = 1
    /\ player.health = player_health
    /\ player.health < player.max_health

\* the number of the player's records stored with the tag 'draw'
Draws(history, p) ==
    Cardinality({i \in player_battles(history, p) : history[i].result = "draw"})

\* C31: for a new player and one combat system, after any sequence of battles
\* combat_wins is the number of the player's 'victory' records in the history,
\* combat_losses the number of its 'defeat' records, and the number of its
\* records is wins + losses + draws.
C31_CountersMatchHistory ==
    LET stats == get_combat_stats(combat_history, player)
    IN  /\ player.combat_wins = stats.wins
        /\ player.combat_losses = stats.losses
        /\ stats.total_battles = player.combat_wins + player.combat_losses
                                    + Draws(combat_history, player)
        /\ stats.total_battles = Len(combat_history)

\* a new player has lost one battle and drawn the other
C31_Witness ==
    /\ probe.kind = "progress"
    /\ ~probe.prepared
    /\ Returned
    /\ Len(combat_history) = 2
    /\ combat_history[1].result = "defeat"
    /\ combat_history[2].result = "draw"
    /\ player.combat_losses = 1
    /\ player.combat_wins = 0
    /\ get_combat_stats(combat_history, player).total_battles = 2

\* C32: within one battle the running healths of both sides are never
\* negative, never increase, and are never both 0; a round is played only
\* while both are above 0 and its first strike, which every round has, lowers
\* the health of the side it lands on by at least 1.
C32_RunningHealths ==
    [][/\ (pc' \in {"loop", "first", "second"}) =>
            /\ player_health' >= 0
            /\ opponent_health' >= 0
            /\ ~(player_health' = 0 /\ opponent_health' = 0)
       /\ InBattle =>
            /\ player_health' <= player_health
            /\ opponent_health' <= opponent_health
       /\ (pc = "loop" /\ pc' = "first") =>
            (player_health > 0 /\ opponent_health > 0)
       /\ pc = "first" =>
            \/ player_health' <= player_health - 1
            \/ opponent_health' <= opponent_health - 1]_vars

\* the twentieth round has been played and both sides are still standing,
\* each with less health than it began the battle with
C32_Witness ==
    /\ pc = "loop"
    /\ nrounds = RoundCap
    /\ player_health > 0
    /\ opponent_health > 0
    /\ player_health < player.health
    /\ opponent_health < npc_database[opponent].health

\* C33: both rewards of a battle are computed from the player's level as it
\* was before the battle's experience was applied: a level-up caused by the
\* experience reward changes neither the experience nor the currency granted
\* for that battle, and the currency reported in the result leaves out the
\* 100 credits of the level-up.
C33_RewardsFromLevelBefore ==
    [][BattleReturns =>
        LET npc == npc_database[opponent]
            victory == result'.result = "victory"
            leveled == player'.level > player.level
            record == combat_history'[Len(combat_history')]
        IN  /\ result'.experience_gained =
                   calculate_experience_reward(player, npc, victory)
            /\ result'.credits_gained =
                   calculate_credits_reward(player, npc, victory)
            /\ record.experience_gained = result'.experience_gained
            /\ record.credits_gained = result'.credits_gained
            /\ player'.credits - player.credits =
                   result'.credits_gained + (IF leveled THEN 100 ELSE 0)
            /\ leveled <=> (player.experience + result'.experience_gained
                               >= player.experience_to_next_level)]_vars

\* a level-1 player reached level 2 by beating the level-4 opponent and was
\* granted the 39 credits of a three-level difference, not the 36 of two
C33_Witness ==
    /\ Returned
    /\ result.result = "victory"
    /\ Len(combat_history) = 1
    /\ combat_history[1].opponent_name = create_npc_database[4].name
    /\ player.level = 2
    /\ result.credits_gained = 39
    /\ result.experience_gained = 75
    /\ player.credits = NewPlayer.credits + 100 + 39
    /\ calculate_credits_reward(player, create_npc_database[4], TRUE) = 36

\* C36: the cooldown check and the cooldown display agree at every instant,
\* whole second or not: when can_combat() is false get_combat_cooldown()
\* returns at least 1 and when it is true it returns 0, and likewise
\* can_search() and get_search_cooldown().
C36_CheckAndDisplayAgree ==
    (probe.kind = "timers" /\ probe.stage = "called") =>
        /\ ~probe.can_combat => probe.combat_cooldown >= 1
        /\ probe.can_combat => probe.combat_cooldown = 0
        /\ ~probe.can_search => probe.search_cooldown >= 1
        /\ probe.can_search => probe.search_cooldown = 0

\* C34: the combat action of process_player_action called while can_combat()
\* is false runs no battle: it returns success = false with a wait message,
\* and the player's level, experience, currency, health, counters and
\* cooldown timestamp and the battle history stay as they were.
C34_RefusedOnCooldown ==
    [][(EngineWatched /\ pc = "idle" /\ ~can_combat(player, now)) =>
         /\ pc' = "idle"
         /\ combat_history' = combat_history
         /\ result' = result
         /\ (probe'.message # probe.message \/ probe'.success # probe.success) =>
               /\ probe'.message.text = "wait"
               /\ probe'.message.seconds = get_combat_cooldown(player, now)
               /\ ~probe'.success
               /\ player' = player
               /\ now' = now]_vars

\* a battle was fought, half a second passed and the next one was refused
\* with 299 seconds to wait
C34_Witness ==
    /\ EngineWatched
    /\ pc = "idle"
    /\ Len(combat_history) = 1
    /\ player.last_combat # NoTime
    /\ ~can_combat(player, now)
    /\ probe.message.text = "wait"
    /\ probe.message.seconds = combat_cooldown - 1
    /\ ~probe.success

\* C35: two battles of one player run through the combat action of
\* process_player_action begin at least 300 seconds apart, unless a daily
\* reset of the player, which clears the cooldown timestamps, came between
\* them.
C35_BattlesCooldownApart ==
    [][(EngineWatched /\ pc = "selected" /\ pc' = "loop"
        /\ probe.started # NoTime /\ ~probe.reset) =>
          /\ player.last_combat = probe.started
          /\ now - probe.started >= 300 * TicksPerSecond
          /\ player'.last_combat - player.last_combat >= 300 * TicksPerSecond]_vars

\* the second battle has begun exactly 300 seconds after the first, with no
\* reset between them
C35_Witness ==
    /\ EngineWatched
    /\ pc = "loop"
    /\ Len(combat_history) = 1
    /\ ~probe.reset
    /\ nrounds = 0
    /\ probe.started = now
    /\ player.last_combat = combat_cooldown * TicksPerSecond

\* C37: with the fixed roster (levels 1 to 10, 15, 20, 25, 30 and 35)
\* find_opponent returns an opponent for every player level from 1 to 38 and
\* none for every level of 39 or more: below 39 there is no level at which a
\* player finds no opponent.
C37_RosterCoversLevels ==
    /\ player.level >= 1
    /\ suitable_npcs(player) # {} <=> player.level <= 38
    /\ pc = "selected" => (opponent # 0 <=> player.level <= 38)

\* a player of level 38 was given the opponent of level 35
C37_Witness ==
    /\ probe.kind = "action"
    /\ pc = "selected"
    /\ player.level = 38
    /\ opponent # 0
    /\ npc_database[opponent].level = 35
    /\ suitable_npcs(player) = {opponent}
    /\ {npc_database[i].level : i \in DOMAIN npc_database}
           = (1..10) \cup {15, 20, 25, 30, 35}

====
